---- MODULE Spec2Model ----
(***************************************************************************)
(* Verification model of ttuex-bot: the retry wrapper (utils/retry.py),    *)
(* the error classifier (utils/error_classifier.py), the per-account       *)
(* workflow engine (core/workflow.py) and the account orchestrator         *)
(* (orchestrator.py).                                                      *)
(*                                                                         *)
(* The specifications share the variables:                                 *)
(*   SpecRetry     one call of a function decorated with async_retry       *)
(*   SpecWorkflow  one call of execute_copy_trade / execute_login          *)
(*   SpecFollowUp  _step_execute_follow_up under its retry wrapper         *)
(*   SpecClassify  the operations of the error classifier on one text      *)
(*   SpecOrch      one orchestrate_accounts run, worker by worker          *)
(*   SpecOrchFair  SpecOrch on a running event loop (weak fairness)        *)
(*   SpecPool      the semaphore of orchestrate_accounts, many accounts    *)
(*   SpecSteps     a step function before the follow-up, under its wrapper *)
(*   SpecHelpers   one call of a helper of WebErrorHandler                 *)
(*   SpecAccount   one call of run_copy_trade_for_account                  *)
(*   SpecBot       run_bot processes around the lock file bot.lock         *)
(*   SpecEntry     an entry point from its account list to its browser     *)
(* The variables of the components a specification does not run stay at    *)
(* their initial value.                                                    *)
(***************************************************************************)
EXTENDS Integers, Sequences, FiniteSets, TLC

VARIABLES
    \* ---- async_retry.wrapper (utils/retry.py) ----
    r_max_attempts,      \* decorator argument max_attempts
    r_permanent_errors,  \* decorator argument permanent_errors (set of types)
    r_attempt,           \* loop variable attempt
    r_delay,             \* local delay
    r_pc,                \* "call" | "sleep" | "returned" | "raised"
    r_log,               \* one entry per invocation of fn, in order
    r_sleeps,            \* the sleeps so far: delay (s) and jitter (ms)
    r_result,            \* what the wrapper handed to its caller
    \* ---- TtuexWorkflow (core/workflow.py) ----
    wf_op,               \* "execute_copy_trade" | "execute_login"
    wf_username,         \* self.username
    wf_order_number,     \* argument order_number of execute_copy_trade
    wf_dry_run,          \* argument dry_run
    wf_skip_history,     \* argument skip_history_verification
    wf_browser_context,  \* self.browser_context is set
    wf_page,             \* self.page is set
    wf_pc,               \* "entry" | "step" | "sleep" | "returned"
    wf_idx,              \* position in steps_to_execute
    wf_attempt,          \* attempt of the retry wrapper around the step
    wf_calls,            \* one entry per invocation of a step function
    wf_ops,              \* calls made on the browser context or the page
    report,              \* the report dictionary
    \* ---- orchestrate_accounts (orchestrator.py), worker by worker ----
    o_max_concurrency,   \* argument max_concurrency
    o_pc,                \* per account: position of its worker task
    o_context,           \* per account: "none"|"open"|"closed"|"close_failed"
    o_pending,           \* per account: outcome of run_for_account
    o_task,              \* per account: outcome of the worker task
    o_value,             \* semaphore._value
    o_waiters,           \* semaphore._waiters (FIFO)
    o_finished,          \* accounts in the order their tasks finished
    o_results,           \* the list orchestrate_accounts returns
    o_main,              \* "gather" | "returned"
    o_passed,            \* per account: the context its step operation got
    o_closes,            \* per account: calls of close() on its context
    \* ---- the semaphore of orchestrate_accounts, many accounts ----
    p_max_concurrency,   \* argument max_concurrency
    p_pc,                \* per account: "created"|"waiting"|"inflight"|"done"
    p_value,             \* semaphore._value
    p_waiters,           \* semaphore._waiters (FIFO)
    p_admitted,          \* accounts in the order they acquired a slot
    \* ---- _step_execute_follow_up under its retry wrapper ----
    f_dry_run,           \* argument dry_run
    f_pc,                \* "call" | "sleep" | "returned" | "raised"
    f_attempt,           \* attempt of the retry wrapper
    f_obs,               \* what the latest invocation saw on the page
    f_log,               \* one outcome per invocation of the step function
    f_result,            \* what the wrapper handed to the workflow loop
    \* ---- ErrorClassifier and classify_and_raise on one error text ----
    c_text,              \* the error text
    c_results,           \* per operation: what it gave for c_text
    \* ---- one step function of the workflow under its retry wrapper ----
    s_step,              \* the step function
    s_dry_run,           \* argument dry_run
    s_session_file,      \* the persisted session file exists
    s_storage_state_path,\* self.storage_state_path is set
    s_pc,                \* "call"|"sleep"|"returned"|"raised"|"appended"
    s_attempt,           \* attempt of the retry wrapper
    s_obs,               \* what the invocation observed
    s_log,               \* per invocation of the step function: how it ended
    s_outcome,           \* how the invocation ended
    s_saves,             \* calls of browser_context.storage_state so far
    s_result,            \* what reached the entry operation
    s_steps,             \* report["steps"] of the entry operation
    \* ---- one call of a helper of WebErrorHandler ----
    h_op,                \* the helper
    h_timeout,           \* argument timeout (NoTimeout: None)
    h_pc,                \* the awaited call it is at, or "returned"
    h_calls,             \* the calls it made on the page, with the answers
    h_dismissals,        \* invocations of handle_common_popups
    h_result,            \* "True" | "False" | "raised", "none" before
    \* ---- one call of run_copy_trade_for_account (actions.py) ----
    a_account,           \* the AccountCredentials: account_name, username
    a_notify,            \* telethon_client and chat_id are given
    a_pc,                \* where the call is
    a_page,              \* local page: "unbound" | "open" | "closed"
    a_pending,           \* the return or raise the finally clause holds
    a_result,            \* what reached the caller
    a_messages,          \* messages sent through telethon_client
    \* ---- concurrently started run_bot calls (telegram_bot.py) ----
    b_pc,                \* per process: where run_bot is
    b_lock,              \* bot.lock exists
    \* ---- one entry point: CLI command, background task, orchestrator ----
    e_entry,             \* the entry point
    e_file_accounts,     \* number of accounts in accounts.json
    e_env,               \* TTUEX_USERNAME and TTUEX_PASSWORD are set
    e_accounts,          \* the account list in hand (a number of accounts)
    e_pc,                \* where the entry point is
    e_browsers,          \* browsers launched
    e_contexts,          \* browser contexts created
    e_done,              \* outcomes of the workers that finished
    e_results            \* what orchestrate_accounts returned

retryVars == <<r_max_attempts, r_permanent_errors, r_attempt, r_delay, r_pc,
               r_log, r_sleeps, r_result>>
wfVars    == <<wf_op, wf_username, wf_order_number, wf_dry_run,
               wf_skip_history, wf_browser_context, wf_page,
               wf_pc, wf_idx, wf_attempt, wf_calls, wf_ops, report>>
orchVars  == <<o_max_concurrency, o_pc, o_context, o_pending, o_task, o_value,
               o_waiters, o_finished, o_results, o_main, o_passed, o_closes>>
poolVars  == <<p_max_concurrency, p_pc, p_value, p_waiters, p_admitted>>
followVars == <<f_dry_run, f_pc, f_attempt, f_obs, f_log, f_result>>
classVars == <<c_text, c_results>>
stepVars  == <<s_step, s_dry_run, s_session_file, s_storage_state_path, s_pc,
               s_attempt, s_obs, s_log, s_outcome, s_saves, s_result, s_steps>>
helpVars  == <<h_op, h_timeout, h_pc, h_calls, h_dismissals, h_result>>
acctVars  == <<a_account, a_notify, a_pc, a_page, a_pending, a_result,
               a_messages>>
botVars   == <<b_pc, b_lock>>
entryVars == <<e_entry, e_file_accounts, e_env, e_accounts, e_pc, e_browsers,
               e_contexts, e_done, e_results>>
vars      == <<retryVars, wfVars, orchVars, poolVars, followVars, classVars,
               stepVars, helpVars, acctVars, botVars, entryVars>>

----------------------------------------------------------------------------
(* Bounds of the model *)

\* largest max_attempts the retry specification draws
MaxAttemptsBound == 3
\* number of accounts of the worker-by-worker orchestrator specification
NumAccounts == 3
\* number of accounts of the semaphore specification (one more than the cap)
NumPoolAccounts == 11

----------------------------------------------------------------------------
(* Error texts.  A text is known by the substrings of its lower-cased form  *)
(* that the pattern lists of the program look for (str(exc).lower()).       *)

\* config.py: ttuex_login_url, ttuex_base_url + "/trade/btc", and the page
\* the login redirects to
LoginUrl == "https://ttuex.club/login-page?redirect=/pc-home"

ContractUrl == "https://ttuex.club/trade/btc"

HomeUrl == "https://ttuex.club/pc-home"

\* f"...{current_url}"
WithUrl(prefix, url) == prefix \o url

\* the pattern strings that occur in text.lower()
Occurs(text) ==
    CASE text = "Timeout error" -> {"timeout", "error"}
      [] text = "403 forbidden" -> {"forbidden", "403"}
      [] text = "401 unauthorized" -> {"unauthorized", "401", "auth"}
      [] text = "net::ERR_CONNECTION_REFUSED" -> {"net::err_"}
      [] text = "authentication failed" -> {"failed", "auth"}
      [] text = "timeout" -> {"timeout"}
      [] text = "timeout occurred" -> {"timeout"}
      [] text = "page load timeout" -> {"timeout"}
      [] text = "connection reset" -> {"connection reset"}
      [] text = "502 bad gateway" -> {"502"}
      [] text = "503 service unavailable" -> {"503"}
      [] text = "403 timeout" -> {"403", "timeout"}
      \* texts of the order alert modal, of the toast and of the page
      [] text = "Duplicate order" -> {"duplicate"}
      [] text = "Suivi réussi" -> {"suivi", "réussi"}
      [] text = "Order does not exist" -> {"not exist"}
      [] text = "Order completed" -> {"completed"}
      [] text = "Order not found" -> {"not found"}
      [] text = "Completed successfully" -> {"completed", "success"}
      [] text = "Follow failed" -> {"failed"}
      [] text = "Already followed (duplicate)" -> {"duplicate", "followed"}
      [] text = "Please wait" -> {}
      \* messages the follow-up step builds itself
      [] text = "Order failed" -> {"failed"}
      [] text = "Order failed - error found in page content"
            -> {"failed", "error"}
      \* page.url
      [] text = LoginUrl -> {"login", "/login", "login-page"}
      [] text = ContractUrl -> {}
      [] text = HomeUrl -> {}
      \* page.content()
      [] text = "Invalid username or password" -> {"password", "invalid"}
      [] text = "An error occurred" -> {"error"}
      [] text = "Loading" -> {}
      [] text = "Wrong password" -> {"password", "wrong password"}
      [] text = "Page not found" -> {"not found"}
      \* what Playwright and the interpreter raise
      [] text = "Timeout 20000ms exceeded." -> {"timeout"}
      [] text = "Target page, context or browser has been closed" -> {}
      [] text = "'coroutine' object has no attribute 'lower'" -> {}
      \* messages the step functions build themselves
      [] text = "Login page shows error - likely incorrect credentials"
            -> {"credential", "login", "incorrect", "error"}
      [] text = "Login form not visible - possible temporary page loading issue"
            -> {"login"}
      [] text = WithUrl("Still on login page: ",
                    LoginUrl)
            -> {"login", "/login", "login-page"}
      [] text = WithUrl("Post-login elements not found. Current URL: ",
                    ContractUrl)
            -> {"not found", "login"}
      [] text = WithUrl("Post-login elements not found. Current URL: ",
                    HomeUrl)
            -> {"not found", "login"}
      [] text = WithUrl("Login appeared successful but post-login elements missing - likely incorrect credentials. Current URL: ",
                    ContractUrl)
            -> {"success", "credential", "login", "incorrect"}
      [] text = WithUrl("Login appeared successful but post-login elements missing - likely incorrect credentials. Current URL: ",
                    HomeUrl)
            -> {"success", "credential", "login", "incorrect"}
      [] text = WithUrl("Not logged in when navigating to contract. Redirected to: ",
                    LoginUrl)
            -> {"login", "/login", "login-page"}
      [] text = WithUrl("Contract page returned error: ",
                    ContractUrl)
            -> {"error"}
      [] text = WithUrl("Contract page returned error: ",
                    HomeUrl)
            -> {"error"}
      [] text = WithUrl("Contract page elements not found. Current URL: ",
                    LoginUrl)
            -> {"not found", "login", "/login", "login-page"}
      [] text = WithUrl("Contract page elements not found. Current URL: ",
                    ContractUrl)
            -> {"not found"}
      [] text = WithUrl("Contract page elements not found. Current URL: ",
                    HomeUrl)
            -> {"not found"}
      [] text = WithUrl("Logged out when navigating to copy trading. Redirected to: ",
                    LoginUrl)
            -> {"login", "/login", "login-page"}
      [] text = WithUrl("Copy trading button exists but couldn't be clicked. Current URL: ",
                    LoginUrl)
            -> {"login", "/login", "login-page"}
      [] text = WithUrl("Copy trading button exists but couldn't be clicked. Current URL: ",
                    ContractUrl)
            -> {}
      [] text = WithUrl("Copy trading button exists but couldn't be clicked. Current URL: ",
                    HomeUrl)
            -> {}
      [] text = WithUrl("Copy trading button not found. UI might have changed. Current URL: ",
                    ContractUrl)
            -> {"not found"}
      [] text = WithUrl("Copy trading button not found. UI might have changed. Current URL: ",
                    HomeUrl)
            -> {"not found"}
      [] text = WithUrl("Logged out when entering order number. Redirected to: ",
                    LoginUrl)
            -> {"login", "/login", "login-page"}
      [] text = WithUrl("Order number input exists but couldn't be found. Current URL: ",
                    ContractUrl)
            -> {}
      [] text = WithUrl("Order number input exists but couldn't be found. Current URL: ",
                    HomeUrl)
            -> {}
      [] text = WithUrl("Order number input not found after retries. Current URL: ",
                    ContractUrl)
            -> {"not found"}
      [] text = WithUrl("Order number input not found after retries. Current URL: ",
                    HomeUrl)
            -> {"not found"}
      [] OTHER -> {}

----------------------------------------------------------------------------
(* utils/error_classifier.py *)

\* each pattern as the code compares it: pattern.lower()
PERMANENT_ERROR_PATTERNS ==
    <<"invalid.*credentials", "incorrect.*password", "wrong.*password",
      "authentication.*failed", "login.*failed", "access.*denied",
      "forbidden", "unauthorized", "401", "403",
      "invalid.*input", "malformed.*url", "invalid.*selector",
      "element.*not.*found",
      "account.*disabled", "account.*suspended", "account.*banned",
      "account.*locked",
      "selector.*not.*found">>

TEMPORARY_ERROR_PATTERNS ==
    <<"net::err_", "timeout", "load.*failed", "navigation.*failed",
      "page.*crashed", "connection.*refused", "connection.*reset",
      "host.*unreachable", "was.*closed", "failed.*fetch", "network.*error",
      "502", "503", "504", "slow.*down",
      "target.*closed", "browser.*disconnected", "context.*disposed",
      "execution.*context.*was.*destroyed",
      "page.*load.*timeout", "document.*load.*timeout",
      "resource.*load.*failed">>

classify_error_TemporaryFirst(text) ==
    IF \E i \in 1..Len(TEMPORARY_ERROR_PATTERNS) :
            TEMPORARY_ERROR_PATTERNS[i] \in Occurs(text)
    THEN "TemporaryError"
    ELSE IF \E i \in 1..Len(PERMANENT_ERROR_PATTERNS) :
            PERMANENT_ERROR_PATTERNS[i] \in Occurs(text)
         THEN "PermanentError"
         ELSE "TemporaryError"

classify_error_DefaultPermanent(text) ==
    IF \E i \in 1..Len(TEMPORARY_ERROR_PATTERNS) :
            TEMPORARY_ERROR_PATTERNS[i] \in Occurs(text)
    THEN "TemporaryError"
    ELSE "PermanentError"

\* ErrorClassifier.classify_error: permanent patterns first, then temporary,
\* default temporary
classify_error(text) ==
    IF \E i \in 1..Len(PERMANENT_ERROR_PATTERNS) :
            PERMANENT_ERROR_PATTERNS[i] \in Occurs(text)
    THEN "PermanentError"
    ELSE IF \E i \in 1..Len(TEMPORARY_ERROR_PATTERNS) :
            TEMPORARY_ERROR_PATTERNS[i] \in Occurs(text)
         THEN "TemporaryError"
         ELSE "TemporaryError"

is_permanent_error(text) == classify_error(text) = "PermanentError"

\* classify_and_raise: the exception it raises (the text keeps the substrings
\* of the original; the prefix it adds contains none of the patterns)
classify_and_raise(text) ==
    [type |-> classify_error(text), text |-> text]

----------------------------------------------------------------------------
(* utils/retry.py *)

\* isinstance(exc, cls): every type derives from Exception, no other
\* inheritance between the types of the model
IsInstance(exc, cls) == exc.type = cls \/ cls = "Exception"

\* 'timeout' in exc.__class__.__name__.lower()
ClassNameHasTimeout(exc) == exc.type = "PlaywrightTimeoutError"

\* the list error_messages; 'net::ERR_' is compared as written against the
\* lower-cased text and so never occurs in it
error_messages ==
    <<"net::ERR_", "timeout", "load failed", "navigation failed",
      "page crashed", "connection refused", "connection reset",
      "host is unreachable", "was closed", "failed to fetch",
      "network error">>

should_retry_exception_NoTypeCheck(exc) == TRUE

should_retry_exception(exc) ==
    IF IsInstance(exc, "PermanentError") THEN FALSE
    ELSE IF IsInstance(exc, "PlaywrightTimeoutError") THEN TRUE
    ELSE IF \E i \in 1..Len(error_messages) :
                error_messages[i] \in Occurs(exc.text) THEN TRUE
    ELSE IF ClassNameHasTimeout(exc) THEN TRUE
    ELSE TRUE

ListedPermanent_Never(exc, permanent_errors) == FALSE

\* any(isinstance(e, err_type) for err_type in permanent_errors)
ListedPermanent(exc, permanent_errors) ==
    \E cls \in permanent_errors : IsInstance(exc, cls)

ExceptHandler_OffByOne(exc, attempt, max_attempts, permanent_errors) ==
    IF ~should_retry_exception(exc) THEN "raise"
    ELSE IF ListedPermanent(exc, permanent_errors) THEN "raise"
    ELSE IF attempt = max_attempts + 1 THEN "raise"
    ELSE "sleep"

ExceptHandler_IgnoreType(exc, attempt, max_attempts, permanent_errors) ==
    IF attempt = max_attempts THEN "raise" ELSE "sleep"

ExceptHandler_AlwaysRetry(exc, attempt, max_attempts, permanent_errors) ==
    IF ListedPermanent(exc, permanent_errors) THEN "raise"
    ELSE IF attempt = max_attempts THEN "raise"
    ELSE "sleep"

\* the except clause of wrapper: re-raise or sleep before the next attempt
ExceptHandler(exc, attempt, max_attempts, permanent_errors) ==
    IF ~should_retry_exception(exc) THEN "raise"
    ELSE IF ListedPermanent(exc, permanent_errors) THEN "raise"
    ELSE IF attempt = max_attempts THEN "raise"
    ELSE "sleep"

\* program defaults of async_retry: base_delay and factor
BaseDelay == 1
Factor == 2

\* what one invocation of the wrapped operation can do: return a value, raise
\* an exception directly, or raise through classify_and_raise
RaisedDirectly ==
    { [type |-> "PermanentError",         text |-> "Bad credentials"],
      [type |-> "TemporaryError",         text |-> "Temporary network issue"],
      [type |-> "PlaywrightTimeoutError", text |-> "Timeout error"],
      [type |-> "ValueError",             text |-> "some unknown error"],
      [type |-> "Exception",              text |-> "403 forbidden"],
      [type |-> "Exception",              text |-> "net::ERR_CONNECTION_REFUSED"] }

RaisedByClassifier ==
    { classify_and_raise(t) : t \in {"401 unauthorized", "Timeout error"} }

Raisable == RaisedDirectly \cup RaisedByClassifier

NoException == [type |-> "none", text |-> "none"]

\* a log entry / a result: kind "value" | "exception" | "none"
Outcome(kind, exc, call) == [kind |-> kind, exc |-> exc, call |-> call]

NoOutcome == Outcome("none", NoException, 0)

\* return await fn(...): fn returns, the wrapper returns its value
RetryCallReturns ==
    /\ r_pc = "call"
    /\ LET n == Len(r_log) + 1 IN
        /\ r_log' = Append(r_log, Outcome("value", NoException, n))
        /\ r_result' = Outcome("value", NoException, n)
    /\ r_pc' = "returned"
    /\ UNCHANGED <<r_max_attempts, r_permanent_errors, r_attempt, r_delay,
                   r_sleeps>>
    /\ UNCHANGED <<wfVars, orchVars, poolVars, followVars, classVars, stepVars, helpVars, acctVars, botVars, entryVars>>

\* return await fn(...): fn raises, the except clause decides
RetryCallRaises ==
    /\ r_pc = "call"
    /\ \E e \in Raisable :
        LET n == Len(r_log) + 1
            d == ExceptHandler(e, r_attempt, r_max_attempts, r_permanent_errors)
        IN  /\ r_log' = Append(r_log, Outcome("exception", e, n))
            /\ IF d = "raise"
               THEN /\ r_pc' = "raised"
                    /\ r_result' = Outcome("exception", e, n)
               ELSE /\ r_pc' = "sleep"
                    /\ r_result' = r_result
    /\ UNCHANGED <<r_max_attempts, r_permanent_errors, r_attempt, r_delay,
                   r_sleeps>>
    /\ UNCHANGED <<wfVars, orchVars, poolVars, followVars, classVars, stepVars, helpVars, acctVars, botVars, entryVars>>

\* random.random() * 0.1, in milliseconds: a value of [0, 100)
JitterLimitMs == 100
Jitters == {0, 50, JitterLimitMs - 1}

NextDelay_Constant(delay) == delay

\* delay *= factor
NextDelay(delay) == delay * Factor

\* await asyncio.sleep(delay + jitter); delay *= factor; next loop iteration,
\* or the end of the for loop (the wrapper then returns None)
RetrySleep ==
    /\ r_pc = "sleep"
    /\ \E jitter \in Jitters :
            r_sleeps' = Append(r_sleeps, [delay |-> r_delay, jitter |-> jitter])
    /\ r_delay' = NextDelay(r_delay)
    /\ IF r_attempt < r_max_attempts
       THEN /\ r_attempt' = r_attempt + 1
            /\ r_pc' = "call"
            /\ r_result' = r_result
       ELSE /\ r_attempt' = r_attempt
            /\ r_pc' = "returned"
            /\ r_result' = Outcome("value", NoException, 0)
    /\ UNCHANGED <<r_max_attempts, r_permanent_errors, r_log>>
    /\ UNCHANGED <<wfVars, orchVars, poolVars, followVars, classVars, stepVars, helpVars, acctVars, botVars, entryVars>>

RetryNext == RetryCallReturns \/ RetryCallRaises \/ RetrySleep

----------------------------------------------------------------------------
(* core/workflow.py: TtuexWorkflow *)

\* steps_to_execute of execute_copy_trade, by the name each step function
\* puts in its result
StepOrder ==
    <<"login", "navigate_to_contract", "navigate_to_copy_trading",
      "enter_order_number", "execute_follow_up">>

StepsOf_AlwaysFive(op) == StepOrder

\* the step functions an entry operation runs
StepsOf(op) == IF op = "execute_login" THEN <<"login">> ELSE StepOrder

\* the step functions that carry @async_retry(max_attempts=3);
\* _step_enter_order_number carries no decorator
Decorated(step) == step # "enter_order_number"

\* max_attempts of the decorators on the step functions
StepMaxAttempts == 3

StepResult(step, success, simulated) ==
    [step |-> step, success |-> success, simulated |-> simulated]

StepError(type) == [type |-> type, text |-> "step error"]

\* What one live invocation of a step function can end in: "ok" (a result
\* with success = True), "failed" (a result with success = False, built by
\* the step's own except PermanentError clause), or an exception that leaves
\* the step function.  Every except clause of a step ends in a return, a
\* raise TemporaryError or a raise PermanentError; _step_enter_order_number
\* has no except PermanentError clause and never returns a failed result.
StepOutcomes(step) ==
    IF step = "enter_order_number"
    THEN {"ok", "TemporaryError", "PermanentError"}
    ELSE {"ok", "failed", "TemporaryError", "PermanentError"}

\* account names and order numbers the entry operations are called with
Usernames == {"alice", "bob"}

OrderNumbers == {"ORDER123", "ORDER456"}

SimulatedSteps_AlwaysHistory(order_number, skip_history_verification) ==
    Append([i \in 1..Len(StepOrder) |-> StepResult(StepOrder[i], TRUE, TRUE)],
           StepResult("verify_history", TRUE, TRUE))

\* the dry-run branch of execute_copy_trade
SimulatedSteps(order_number, skip_history_verification) ==
    LET five == [i \in 1..Len(StepOrder) |->
                    IF StepOrder[i] = "enter_order_number"
                    THEN [step |-> StepOrder[i], success |-> TRUE,
                          simulated |-> TRUE, order_number |-> order_number]
                    ELSE StepResult(StepOrder[i], TRUE, TRUE)]
    IN  IF ~skip_history_verification
        THEN Append(five, StepResult("verify_history", TRUE, TRUE))
        ELSE five

\* report = {"account_name": self.username, "order_number": order_number,
\* ..., "steps": [], "success": False}; the report of execute_login has no
\* order_number
NewReport == [account_name |-> wf_username, order_number |-> wf_order_number,
              steps |-> <<>>, success |-> FALSE, error |-> "none",
              finalized |-> FALSE]

\* report["end_time_utc"] = ...; report["duration_seconds"] = ...
Finalize(rep) == [rep EXCEPT !.finalized = TRUE]

HandleException_Swallow(rep, exc) == Finalize(rep)

\* the except clauses of execute_copy_trade / execute_login, then the code
\* after the try statement
HandleException(rep, exc) ==
    Finalize([rep EXCEPT !.error =
        IF IsInstance(exc, "PermanentError") THEN "Permanent error"
        ELSE "Unexpected error"])

Caught_OnlyPermanent(exc) == IsInstance(exc, "PermanentError")

\* except PermanentError as e: ... except Exception as e: ...
Caught(exc) == IsInstance(exc, "PermanentError") \/ IsInstance(exc, "Exception")

\* an exception leaves the try body of the entry operation: the report and
\* the way the entry operation ends
AfterException(rep, exc) ==
    IF Caught(exc)
    THEN [pc |-> "returned", report |-> HandleException(rep, exc)]
    ELSE [pc |-> "raised", report |-> rep]

NeedsContext_Always(op, dry_run) == TRUE

\* execute_login tests self.browser_context first; execute_copy_trade only
\* in the branch of the live run
NeedsContext(op, dry_run) == op = "execute_login" \/ ~dry_run

ShouldStop_Never(result) == FALSE

\* if not result.get("success", False): return report
ShouldStop(result) == ~result.success

\* execute_copy_trade(dry_run=True): the simulated report
CopyTradeDryRun ==
    /\ wf_pc = "entry"
    /\ wf_op = "execute_copy_trade"
    /\ wf_dry_run
    /\ report' = Finalize([report EXCEPT
                    !.steps = SimulatedSteps(wf_order_number, wf_skip_history),
                    !.success = TRUE])
    /\ wf_pc' = "returned"
    /\ UNCHANGED <<wf_op, wf_username, wf_order_number, wf_dry_run,
                   wf_skip_history, wf_browser_context,
                   wf_page, wf_idx, wf_attempt, wf_calls, wf_ops>>
    /\ UNCHANGED <<retryVars, orchVars, poolVars, followVars, classVars, stepVars, helpVars, acctVars, botVars, entryVars>>

\* if not self.browser_context: raise PermanentError(...); in execute_login
\* this test comes before any look at dry_run
NoBrowserContext ==
    /\ wf_pc = "entry"
    /\ NeedsContext(wf_op, wf_dry_run)
    /\ ~wf_browser_context
    /\ report' = AfterException(report, StepError("PermanentError")).report
    /\ wf_pc' = AfterException(report, StepError("PermanentError")).pc
    /\ UNCHANGED <<wf_op, wf_username, wf_order_number, wf_dry_run,
                   wf_skip_history, wf_browser_context,
                   wf_page, wf_idx, wf_attempt, wf_calls, wf_ops>>
    /\ UNCHANGED <<retryVars, orchVars, poolVars, followVars, classVars, stepVars, helpVars, acctVars, botVars, entryVars>>

\* if not self.page: self.page = await self.browser_context.new_page();
\* new_page returns a page or raises
OpenPage ==
    /\ wf_pc = "entry"
    /\ NeedsContext(wf_op, wf_dry_run)
    /\ wf_browser_context
    /\ wf_ops' = IF wf_page THEN wf_ops ELSE wf_ops + 1
    /\ \E created \in BOOLEAN :
        IF wf_page \/ created
        THEN /\ wf_page' = TRUE
             /\ wf_pc' = "step"
             /\ wf_idx' = 1
             /\ wf_attempt' = 1
             /\ report' = report
        ELSE /\ wf_page' = wf_page
             /\ wf_pc' = AfterException(report, StepError("Exception")).pc
             /\ wf_idx' = wf_idx
             /\ wf_attempt' = wf_attempt
             /\ report' = AfterException(report, StepError("Exception")).report
    /\ UNCHANGED <<wf_op, wf_username, wf_order_number, wf_dry_run,
                   wf_skip_history, wf_browser_context, wf_calls>>
    /\ UNCHANGED <<retryVars, orchVars, poolVars, followVars, classVars, stepVars, helpVars, acctVars, botVars, entryVars>>

\* what the engine sees of a step: the wrapper's decision for a decorated
\* step, the exception itself for an undecorated one
AfterRaise(step, exc, attempt) ==
    IF Decorated(step)
    THEN ExceptHandler(exc, attempt, StepMaxAttempts, {})
    ELSE "raise"

\* result = await step_func(self.page, dry_run), one invocation of the step
\* function, and what the loop of execute_copy_trade (or the body of
\* execute_login) does with its outcome
InvokeStep ==
    /\ wf_pc = "step"
    /\ LET step == StepsOf(wf_op)[wf_idx] IN
       \E o \in (IF wf_dry_run THEN {"ok"} ELSE StepOutcomes(step)) :
        /\ wf_calls' = Append(wf_calls, [step |-> step, outcome |-> o])
        /\ wf_ops' = IF wf_dry_run THEN wf_ops ELSE wf_ops + 1
        /\ IF o \in {"ok", "failed"}
           THEN LET result == StepResult(step, o = "ok", wf_dry_run)
                    rep == [report EXCEPT !.steps = Append(@, result)]
                IN  IF ShouldStop(result)
                    THEN /\ report' = rep
                         /\ wf_pc' = "returned"
                         /\ UNCHANGED <<wf_idx, wf_attempt>>
                    ELSE IF wf_idx < Len(StepsOf(wf_op))
                    THEN /\ report' = rep
                         /\ wf_pc' = "step"
                         /\ wf_idx' = wf_idx + 1
                         /\ wf_attempt' = 1
                    ELSE /\ report' = Finalize([rep EXCEPT !.success = TRUE])
                         /\ wf_pc' = "returned"
                         /\ UNCHANGED <<wf_idx, wf_attempt>>
           ELSE IF AfterRaise(step, StepError(o), wf_attempt) = "raise"
                THEN /\ report' = AfterException(report, StepError(o)).report
                     /\ wf_pc' = AfterException(report, StepError(o)).pc
                     /\ UNCHANGED <<wf_idx, wf_attempt>>
                ELSE /\ report' = report
                     /\ wf_pc' = "sleep"
                     /\ UNCHANGED <<wf_idx, wf_attempt>>
    /\ UNCHANGED <<wf_op, wf_username, wf_order_number, wf_dry_run,
                   wf_skip_history, wf_browser_context, wf_page>>
    /\ UNCHANGED <<retryVars, orchVars, poolVars, followVars, classVars, stepVars, helpVars, acctVars, botVars, entryVars>>

\* the wrapper's sleep between two attempts of the same step
StepSleep ==
    /\ wf_pc = "sleep"
    /\ wf_attempt' = wf_attempt + 1
    /\ wf_pc' = "step"
    /\ UNCHANGED <<wf_op, wf_username, wf_order_number, wf_dry_run,
                   wf_skip_history, wf_browser_context,
                   wf_page, wf_idx, wf_calls, wf_ops, report>>
    /\ UNCHANGED <<retryVars, orchVars, poolVars, followVars, classVars, stepVars, helpVars, acctVars, botVars, entryVars>>

WorkflowNext ==
    CopyTradeDryRun \/ NoBrowserContext \/ OpenPage \/ InvokeStep \/ StepSleep

----------------------------------------------------------------------------
(* orchestrator.py: orchestrate_accounts *)

Max(a, b) == IF a >= b THEN a ELSE b
Min(a, b) == IF a <= b THEN a ELSE b

\* the argument max_concurrency: None or an integer
MaxConcurrency(isNone, n) == [isNone |-> isNone, n |-> n]

\* max_concurrency or 1
OrOne(mc) == IF mc.isNone \/ mc.n = 0 THEN 1 ELSE mc.n

\* the ceiling written into the expression for limit
HardCap == 10

Limit_NoCeiling(mc) == Max(1, OrOne(mc))

\* limit = max(1, min(int(max_concurrency or 1), 10))
Limit(mc) == Max(1, Min(OrOne(mc), HardCap))

Locked_IgnoreWaiters(value, waiters) == value = 0

\* asyncio.Semaphore.locked(): no free slot, or somebody already waits
Locked(value, waiters) == value = 0 \/ waiters # <<>>

\* the entries of results: a report of run_for_account, or an exception
\* (raised by new_context, by run_for_account or by context.close)
TaskOutcome(kind, account, source) ==
    [kind |-> kind, account |-> account, source |-> source]

NoTaskOutcome == TaskOutcome("none", 0, "none")

Accounts == 1..NumAccounts

\* the semaphore's value after "async with semaphore" is left with the given
\* task outcome: __aexit__ releases on return and on exception alike
Release_OnlyOnReturn(value, outcome) ==
    IF outcome.kind = "exception" THEN value ELSE value + 1

Release(value, outcome) == value + 1

\* the worker task of account i runs for the first time (tasks start in the
\* order they were created) and enters "async with semaphore"
WorkerStart(i) ==
    /\ o_main = "gather"
    /\ o_pc[i] = "created"
    /\ \A j \in Accounts : j < i => o_pc[j] # "created"
    /\ IF Locked(o_value, o_waiters)
       THEN /\ o_waiters' = Append(o_waiters, i)
            /\ o_pc' = [o_pc EXCEPT ![i] = "waiting"]
            /\ o_value' = o_value
       ELSE /\ o_value' = o_value - 1
            /\ o_pc' = [o_pc EXCEPT ![i] = "acquired"]
            /\ o_waiters' = o_waiters
    /\ UNCHANGED <<o_max_concurrency, o_context, o_pending, o_task,
                   o_finished, o_results, o_main, o_passed, o_closes>>
    /\ UNCHANGED <<retryVars, wfVars, poolVars, followVars, classVars, stepVars, helpVars, acctVars, botVars, entryVars>>

\* a released slot goes to the first waiter
WorkerWake(i) ==
    /\ o_pc[i] = "waiting"
    /\ o_waiters # <<>>
    /\ Head(o_waiters) = i
    /\ o_value > 0
    /\ o_value' = o_value - 1
    /\ o_waiters' = Tail(o_waiters)
    /\ o_pc' = [o_pc EXCEPT ![i] = "acquired"]
    /\ UNCHANGED <<o_max_concurrency, o_context, o_pending, o_task,
                   o_finished, o_results, o_main, o_passed, o_closes>>
    /\ UNCHANGED <<retryVars, wfVars, poolVars, followVars, classVars, stepVars, helpVars, acctVars, botVars, entryVars>>

\* context = await adapter.new_context(...): a context, or an exception that
\* leaves the worker through the finally clause (context is None, nothing to
\* close) and the semaphore
NewContext(i) ==
    /\ o_pc[i] = "acquired"
    /\ \E ok \in BOOLEAN :
        IF ok
        THEN /\ o_context' = [o_context EXCEPT ![i] = "open"]
             /\ o_pc' = [o_pc EXCEPT ![i] = "running"]
             /\ UNCHANGED <<o_task, o_value, o_finished>>
        ELSE /\ o_context' = o_context
             /\ o_pc' = [o_pc EXCEPT ![i] = "done"]
             /\ o_task' = [o_task EXCEPT
                              ![i] = TaskOutcome("exception", i, "new_context")]
             /\ o_value' = Release(o_value, o_task'[i])
             /\ o_finished' = Append(o_finished, i)
    /\ UNCHANGED <<o_max_concurrency, o_pending, o_waiters, o_results, o_main,
                   o_passed, o_closes>>
    /\ UNCHANGED <<retryVars, wfVars, poolVars, followVars, classVars, stepVars, helpVars, acctVars, botVars, entryVars>>

\* the context the worker of account i hands to run_for_account: its local
\* variable context, which holds the context this worker created
ContextArg_Shared(i) == 1

ContextArg(i) == i

\* result = await run_for_account(account, browser, adapter, context, ...):
\* the step operation returns the account's report or raises
RunForAccount(i) ==
    /\ o_pc[i] = "running"
    /\ \E kind \in {"report", "exception"} :
        o_pending' = [o_pending EXCEPT
                         ![i] = TaskOutcome(kind, i, "run_for_account")]
    /\ o_passed' = [o_passed EXCEPT ![i] = ContextArg(i)]
    /\ o_pc' = [o_pc EXCEPT ![i] = "closing"]
    /\ UNCHANGED <<o_max_concurrency, o_context, o_task, o_value, o_waiters,
                   o_finished, o_results, o_main, o_closes>>
    /\ UNCHANGED <<retryVars, wfVars, poolVars, followVars, classVars, stepVars, helpVars, acctVars, botVars, entryVars>>

\* what the task ends in when context.close() raises inside the finally
\* clause: the exception of close replaces the pending return value or
\* exception
CloseRaised(i, pending) == TaskOutcome("exception", i, "context.close")

\* finally: if context: await context.close(); then the semaphore is released
CloseContext(i) ==
    /\ o_pc[i] = "closing"
    /\ \E ok \in BOOLEAN :
        /\ o_context' = [o_context EXCEPT
                            ![i] = IF ok THEN "closed" ELSE "close_failed"]
        /\ o_task' = [o_task EXCEPT
                         ![i] = IF ok THEN o_pending[i]
                                ELSE CloseRaised(i, o_pending[i])]
    /\ o_closes' = [o_closes EXCEPT ![i] = @ + 1]
    /\ o_pc' = [o_pc EXCEPT ![i] = "done"]
    /\ o_value' = Release(o_value, o_task'[i])
    /\ o_finished' = Append(o_finished, i)
    /\ UNCHANGED <<o_max_concurrency, o_pending, o_waiters, o_results, o_main,
                   o_passed>>
    /\ UNCHANGED <<retryVars, wfVars, poolVars, followVars, classVars, stepVars, helpVars, acctVars, botVars, entryVars>>

\* asyncio.gather(*tasks, return_exceptions=True): one entry per task, in
\* the order of the tasks list
Gather(tasks, finished) == [k \in 1..NumAccounts |-> tasks[k]]

\* results = await asyncio.gather(...); return results
OrchReturn ==
    /\ o_main = "gather"
    /\ \A i \in Accounts : o_pc[i] = "done"
    /\ o_results' = Gather(o_task, o_finished)
    /\ o_main' = "returned"
    /\ UNCHANGED <<o_max_concurrency, o_pc, o_context, o_pending, o_task,
                   o_value, o_waiters, o_finished, o_passed, o_closes>>
    /\ UNCHANGED <<retryVars, wfVars, poolVars, followVars, classVars, stepVars, helpVars, acctVars, botVars, entryVars>>

OrchNext ==
    \/ \E i \in Accounts : WorkerStart(i)
    \/ \E i \in Accounts : WorkerWake(i)
    \/ \E i \in Accounts : NewContext(i)
    \/ \E i \in Accounts : RunForAccount(i)
    \/ \E i \in Accounts : CloseContext(i)
    \/ OrchReturn

----------------------------------------------------------------------------
(* orchestrator.py: the semaphore alone, with more accounts than the cap.   *)
(* A worker is created, waits for a slot, is in flight (inside "async with  *)
(* semaphore": creating its context, running the step operation, closing    *)
(* the context) or done.                                                    *)

PoolAccounts == 1..NumPoolAccounts

\* the worker task of account i runs for the first time and enters
\* "async with semaphore"
PoolStart(i) ==
    /\ p_pc[i] = "created"
    /\ \A j \in PoolAccounts : j < i => p_pc[j] # "created"
    /\ IF Locked(p_value, p_waiters)
       THEN /\ p_waiters' = Append(p_waiters, i)
            /\ p_pc' = [p_pc EXCEPT ![i] = "waiting"]
            /\ UNCHANGED <<p_value, p_admitted>>
       ELSE /\ p_value' = p_value - 1
            /\ p_pc' = [p_pc EXCEPT ![i] = "inflight"]
            /\ p_admitted' = Append(p_admitted, i)
            /\ p_waiters' = p_waiters
    /\ UNCHANGED p_max_concurrency
    /\ UNCHANGED <<retryVars, wfVars, orchVars, followVars, classVars, stepVars, helpVars, acctVars, botVars, entryVars>>

\* a released slot goes to the first waiter
PoolWake(i) ==
    /\ p_pc[i] = "waiting"
    /\ p_waiters # <<>>
    /\ Head(p_waiters) = i
    /\ p_value > 0
    /\ p_value' = p_value - 1
    /\ p_waiters' = Tail(p_waiters)
    /\ p_pc' = [p_pc EXCEPT ![i] = "inflight"]
    /\ p_admitted' = Append(p_admitted, i)
    /\ UNCHANGED p_max_concurrency
    /\ UNCHANGED <<retryVars, wfVars, orchVars, followVars, classVars, stepVars, helpVars, acctVars, botVars, entryVars>>

\* the worker leaves "async with semaphore", by return or by exception
PoolLeave(i) ==
    /\ p_pc[i] = "inflight"
    /\ p_pc' = [p_pc EXCEPT ![i] = "done"]
    /\ p_value' = p_value + 1
    /\ UNCHANGED <<p_max_concurrency, p_waiters, p_admitted>>
    /\ UNCHANGED <<retryVars, wfVars, orchVars, followVars, classVars, stepVars, helpVars, acctVars, botVars, entryVars>>

PoolNext ==
    \/ \E i \in PoolAccounts : PoolStart(i)
    \/ \E i \in PoolAccounts : PoolWake(i)
    \/ \E i \in PoolAccounts : PoolLeave(i)

----------------------------------------------------------------------------
(* core/workflow.py: _step_execute_follow_up, one invocation after another  *)
(* under @async_retry(max_attempts=3).  An invocation is determined by what *)
(* the page shows it: whether the click went through, the text of the modal *)
(* (or no modal within its timeout), the text of the toast (or no toast, or *)
(* another failure of the wait), the page content, and the page's URL.      *)

\* texts the modal, the toast and the page content are drawn from
PageTexts ==
    {"Duplicate order", "Suivi réussi", "Order does not exist",
     "Order completed", "Order not found", "Completed successfully",
     "Follow failed", "Already followed (duplicate)", "Please wait"}

\* modal_element.wait_for(state="visible") raised: no modal to read
Absent == "<absent>"

\* a call on the page that this invocation never made
Unread == "<unread>"

\* the keyword lists of lines 220, 222/231, 233 and 239
ModalFailureWords == {"not exist", "completed", "duplicate"}

SuccessWords == {"success", "suivi", "réussi", "followed"}

ToastFailureWords == {"completed", "not exist", "failed", "duplicate"}

ContentFailureWords == {"not exist", "completed", "duplicate", "failed"}

\* any(word in text for word in words), text already lower-cased
AnyWord(words, text) == words \cap Occurs(text) # {}

\* the exception messages of lines 221/234 and of line 240
NoError == [msg |-> "", quoted |-> ""]

OrderFailed(text) == [msg |-> "Order failed", quoted |-> text]

ContentFailed ==
    [msg |-> "Order failed - error found in page content", quoted |-> ""]

\* what an invocation ends in: a returned step result, an exception raised
\* to the retry wrapper, or (inside the function) an exception on its way to
\* the outer except clauses
FollowUpOutcome(kind, success, toast_message, error, type) ==
    [kind |-> kind, step |-> "execute_follow_up", success |-> success,
     toast_message |-> toast_message, error |-> error, type |-> type]

Returned(success, toast_message, error) ==
    FollowUpOutcome("return", success, toast_message, error, "none")

Escaped(type, error) == FollowUpOutcome("escape", FALSE, "", error, type)

Raised(type) == FollowUpOutcome("raise", FALSE, "", NoError, type)

NoFollowUpOutcome == FollowUpOutcome("none", FALSE, "", NoError, "none")

\* lines 215-225: the modal block.  The PermanentError of line 221 is raised
\* inside the try whose bare except clause passes, so a failure text in the
\* modal only lets the function go on to the toast; a success text returns.
ModalVerdict(modal) ==
    IF modal = Absent THEN "continue"
    ELSE IF AnyWord(ModalFailureWords, modal) THEN "continue"
    ELSE IF AnyWord(SuccessWords, modal) THEN "success"
    ELSE "continue"

\* lines 230-234 and 247: the toast appeared with this text
ToastVerdict(toast) ==
    IF AnyWord(SuccessWords, toast) THEN Returned(TRUE, toast, NoError)
    ELSE IF AnyWord(ToastFailureWords, toast)
         THEN Escaped("PermanentError", OrderFailed(toast))
         ELSE Returned(TRUE, "completed", NoError)

ContentHasError_Never(content) == FALSE

\* line 239
ContentHasError(content) == AnyWord(ContentFailureWords, content)

\* lines 235-244: no toast within the timeout, the page content is read
ContentScan(content) ==
    IF content \in {"Error", "TimeoutError"} THEN Escaped(content, NoError)
    ELSE IF ContentHasError(content)
         THEN Escaped("PermanentError", ContentFailed)
         ELSE Returned(TRUE, "completed", NoError)

\* lines 201-247: the body of the outer try statement.  The click of lines
\* 204-208 sits in a try whose bare except clause passes.
TryBody(obs) ==
    IF ModalVerdict(obs.modal) = "success"
    THEN Returned(TRUE, "successful followed", NoError)
    ELSE IF obs.toast = "TimeoutError" THEN ContentScan(obs.content)
    ELSE IF obs.toast = "Error" THEN Escaped("Error", NoError)
    ELSE ToastVerdict(obs.toast)

\* lines 198-262: the whole step function
step_execute_follow_up(obs, dry_run) ==
    IF dry_run
    THEN Returned(TRUE, "", NoError)
    ELSE LET body == TryBody(obs) IN
         IF body.kind = "return" THEN body
         ELSE IF body.type = "PermanentError"
              THEN Returned(FALSE, "", body.error)
         ELSE IF body.type = "TimeoutError"
              THEN Returned(TRUE, "timeout_assumed_success", NoError)
         ELSE IF obs.url_login THEN Raised("PermanentError")
              ELSE Raised("TemporaryError")

\* what an invocation saw: a call it did not get to is Unread
Observation(click, modal, toast, content, url_login) ==
    [click |-> click, modal |-> modal, toast |-> toast, content |-> content,
     url_login |-> url_login]

NoObservation == Observation(FALSE, Unread, Unread, Unread, FALSE)

\* the observations an invocation can make, call by call
Observations(dry_run) ==
    IF dry_run THEN {NoObservation}
    ELSE
    LET seen(click, modal, toast, content, url_login) ==
            LET o == Observation(click, modal, toast, content, url_login)
            IN  IF ModalVerdict(modal) = "success"
                THEN Observation(click, modal, Unread, Unread, FALSE)
                ELSE LET c == IF toast = "TimeoutError" THEN content
                              ELSE Unread
                         o2 == Observation(click, modal, toast, c, url_login)
                     IN  IF TryBody(o2).kind = "escape"
                            /\ TryBody(o2).type = "Error"
                         THEN o2
                         ELSE Observation(click, modal, toast, c, FALSE)
    IN  {seen(click, modal, toast, content, url_login) :
            click \in BOOLEAN,
            modal \in PageTexts \cup {Absent},
            toast \in PageTexts \cup {"TimeoutError", "Error"},
            content \in PageTexts \cup {"TimeoutError", "Error"},
            url_login \in BOOLEAN}

\* the exception object behind a Raised outcome
FollowUpError(type) ==
    [type |-> type, text |-> "Unexpected error during follow-up"]

\* the wrapper calls the step function once
FollowUpCall ==
    /\ f_pc = "call"
    /\ \E obs \in Observations(f_dry_run) :
        LET outcome == step_execute_follow_up(obs, f_dry_run) IN
        /\ f_obs' = obs
        /\ f_log' = Append(f_log, outcome)
        /\ IF outcome.kind = "return"
           THEN f_pc' = "returned" /\ f_result' = outcome
           ELSE IF ExceptHandler(FollowUpError(outcome.type), f_attempt,
                                 StepMaxAttempts, {}) = "raise"
           THEN f_pc' = "raised" /\ f_result' = outcome
           ELSE f_pc' = "sleep" /\ f_result' = f_result
    /\ UNCHANGED <<f_dry_run, f_attempt>>
    /\ UNCHANGED <<retryVars, wfVars, orchVars, poolVars, classVars, stepVars, helpVars, acctVars, botVars, entryVars>>

\* the wrapper's sleep between two attempts
FollowUpSleep ==
    /\ f_pc = "sleep"
    /\ f_attempt' = f_attempt + 1
    /\ f_pc' = "call"
    /\ UNCHANGED <<f_dry_run, f_obs, f_log, f_result>>
    /\ UNCHANGED <<retryVars, wfVars, orchVars, poolVars, classVars, stepVars, helpVars, acctVars, botVars, entryVars>>

FollowUpNext == FollowUpCall \/ FollowUpSleep

----------------------------------------------------------------------------
(* utils/error_classifier.py: the operations on one error text, each        *)
(* applied at most once, in any order                                       *)

\* ErrorClassifier.is_temporary_error
is_temporary_error(text) == classify_error(text) = "TemporaryError"

ClassifierOps ==
    {"classify_error", "is_permanent_error", "is_temporary_error",
     "classify_and_raise"}

\* per operation the set of results it gave: empty until it is applied
NoResults == [op \in ClassifierOps |-> {}]

\* error texts: those of tests/test_error_handling.py and a few more
ClassifierTexts ==
    {"invalid credentials", "incorrect password", "authentication failed",
     "access denied", "401 unauthorized", "account disabled",
     "account suspended",
     "timeout", "net::ERR_CONNECTION_REFUSED", "connection reset",
     "host unreachable", "502 bad gateway", "503 service unavailable",
     "page load timeout",
     "some unknown error", "element click intercepted", "other issue",
     "timeout occurred", "403 forbidden", "403 timeout",
     "flux capacitor overload"}

ClassifyError ==
    /\ c_results["classify_error"] = {}
    /\ c_text \in ClassifierTexts
    /\ c_results' = [c_results EXCEPT
                        !["classify_error"] = {classify_error(c_text)}]
    /\ UNCHANGED c_text
    /\ UNCHANGED <<retryVars, wfVars, orchVars, poolVars, followVars, stepVars, helpVars, acctVars, botVars, entryVars>>

IsPermanentError ==
    /\ c_results["is_permanent_error"] = {}
    /\ c_text \in ClassifierTexts
    /\ c_results' = [c_results EXCEPT
                        !["is_permanent_error"] = {is_permanent_error(c_text)}]
    /\ UNCHANGED c_text
    /\ UNCHANGED <<retryVars, wfVars, orchVars, poolVars, followVars, stepVars, helpVars, acctVars, botVars, entryVars>>

IsTemporaryError ==
    /\ c_results["is_temporary_error"] = {}
    /\ c_text \in ClassifierTexts
    /\ c_results' = [c_results EXCEPT
                        !["is_temporary_error"] = {is_temporary_error(c_text)}]
    /\ UNCHANGED c_text
    /\ UNCHANGED <<retryVars, wfVars, orchVars, poolVars, followVars, stepVars, helpVars, acctVars, botVars, entryVars>>

\* the result is the exception classify_and_raise raises
ClassifyAndRaise ==
    /\ c_results["classify_and_raise"] = {}
    /\ c_text \in ClassifierTexts
    /\ c_results' = [c_results EXCEPT
                        !["classify_and_raise"] = {classify_and_raise(c_text)}]
    /\ UNCHANGED c_text
    /\ UNCHANGED <<retryVars, wfVars, orchVars, poolVars, followVars, stepVars, helpVars, acctVars, botVars, entryVars>>

ClassifyNext ==
    ClassifyError \/ IsPermanentError \/ IsTemporaryError \/ ClassifyAndRaise

----------------------------------------------------------------------------
(* core/workflow.py: the step functions _step_login,                        *)
(* _step_navigate_to_contract, _step_navigate_to_copy_trading and           *)
(* _step_enter_order_number, each from what one invocation observes on the  *)
(* page.  The page keeps one URL while an invocation analyses a failure.    *)

\* page.url: the urls of the model
Urls == {LoginUrl, ContractUrl, HomeUrl}

\* page.content() of the pages an invocation reads
Contents ==
    {"Invalid username or password", "An error occurred", "Loading",
     "Wrong password", "Page not found"}

\* how a Playwright call that does not complete fails
Failures == {"TimeoutError", "Error", "Closed"}

\* the exception a failing Playwright call raises
PlaywrightFailure(failure) ==
    IF failure = "TimeoutError"
    THEN [type |-> "PlaywrightTimeoutError",
          text |-> "Timeout 20000ms exceeded."]
    ELSE IF failure = "Error"
    THEN [type |-> "Error", text |-> "net::ERR_CONNECTION_REFUSED"]
    ELSE [type |-> "Error",
          text |-> "Target page, context or browser has been closed"]

\* utils/error_classifier.py: the pattern lists of the helper predicates,
\* compared with `in` against str(error).lower()
login_related_patterns ==
    <<"password", "credential", "login", "auth", "incorrect",
      "invalid.*user", "invalid.*account">>

network_patterns ==
    <<"timeout", "net::err_", "connection.*refused", "connection.*reset",
      "host.*unreachable", "502", "503", "504", "network.*error">>

element_patterns ==
    <<"element.*not.*found", "locator.*not.*found", "selector.*not.*found",
      "could.*not.*find", "does.*not.*exist">>

AnyPattern(patterns, text) ==
    \E i \in 1..Len(patterns) : patterns[i] \in Occurs(text)

is_login_error(exc) == AnyPattern(login_related_patterns, exc.text)

is_network_error(exc) == AnyPattern(network_patterns, exc.text)

is_timeout_error(exc) ==
    IsInstance(exc, "PlaywrightTimeoutError") \/ "timeout" \in Occurs(exc.text)

is_element_not_found_error(exc) == AnyPattern(element_patterns, exc.text)

\* the dict a step function returns
StepDict(step, success) ==
    [step |-> step, success |-> success, simulated |-> FALSE,
     cached |-> FALSE, error |-> "none", order_number |-> "none"]

NoStepDict == StepDict("none", FALSE)

\* how an invocation of a step function ends; trace lists the calls it made
\* on the page, the context and the helpers, in order
StepReturn(result, trace) ==
    [kind |-> "return", result |-> result, type |-> "none", text |-> "",
     trace |-> trace]

StepRaise(exc, trace) ==
    [kind |-> "raise", result |-> NoStepDict, type |-> exc.type,
     text |-> exc.text, trace |-> trace]

NoStepOutcome == StepReturn(NoStepDict, <<>>)

\* the positions of a call in a trace
Calls(trace, call) == {i \in 1..Len(trace) : trace[i] = call}

\* raise TemporaryError(text) / raise PermanentError(text)
TemporaryError(text) == [type |-> "TemporaryError", text |-> text]

PermanentError(text) == [type |-> "PermanentError", text |-> text]

\* what one invocation observes, call by call; an answer that no test of
\* the invocation looks at is Unread
NoStepObs ==
    [probe |-> Unread, goto |-> Unread, visible |-> Unread,
     visible2 |-> Unread, clicked |-> Unread, url |-> Unread,
     content |-> Unread, screenshot |-> Unread, form |-> Unread,
     wait_url |-> Unread, marker |-> Unread, count |-> Unread,
     save |-> Unread, fill |-> Unread]

SessionProbe_AlwaysCached(obs, session_file) ==
    [cached |-> TRUE, trace |-> <<"goto base", "popups", "wait marker">>]

\* lines 275-287: the probe of the persisted session; the bare except
\* swallows what goto raises
SessionProbe(obs, session_file) ==
    IF ~session_file THEN [cached |-> FALSE, trace |-> <<>>]
    ELSE IF obs.probe \in Failures
    THEN [cached |-> FALSE, trace |-> <<"goto base">>]
    ELSE [cached |-> obs.probe = "marker",
          trace |-> <<"goto base", "popups", "wait marker">>]

UsernameHidden_AlwaysTemporary(obs, trace) ==
    StepRaise(TemporaryError(
        "Login form not visible - possible temporary page loading issue"),
        trace)

\* lines 298-317: the username input did not become visible.  page.title()
\* is a coroutine that is not awaited: when the URL test fails,
\* page.title().lower() raises AttributeError
UsernameHidden(obs, trace) ==
    IF "/login" \in Occurs(obs.url)
    THEN IF obs.content \in Failures
         THEN StepRaise(PlaywrightFailure(obs.content),
                        trace \o <<"content">>)
         ELSE IF obs.screenshot \in Failures
         THEN StepRaise(PlaywrightFailure(obs.screenshot),
                        trace \o <<"content", "screenshot">>)
         ELSE IF AnyWord({"invalid", "error", "incorrect"}, obs.content)
         THEN StepRaise(PermanentError(
                  "Login page shows error - likely incorrect credentials"),
                  trace \o <<"content", "screenshot">>)
         ELSE StepRaise(TemporaryError(
                  "Login form not visible - possible temporary page loading issue"),
                  trace \o <<"content", "screenshot">>)
    ELSE StepRaise([type |-> "AttributeError",
                    text |-> "'coroutine' object has no attribute 'lower'"],
                   trace)

\* lines 321-327: fill, fill, click; obs.form names the call that timed out
FormCalls == <<"fill username", "fill password", "click submit">>

FormTrace(form) ==
    IF form = "ok" THEN FormCalls
    ELSE SubSeq(FormCalls, 1,
                CHOOSE i \in 1..Len(FormCalls) : FormCalls[i] = form)

\* line 348: the error indicators of the post-login check
PostLoginWords ==
    {"incorrect", "invalid", "error", "wrong password", "wrong credentials"}

MarkerHidden_AssumeSuccess(obs, trace) ==
    StepReturn(StepDict("login", TRUE), trace \o <<"storage_state">>)

\* lines 343-352: the post-login marker did not become visible
MarkerHidden(obs, trace) ==
    IF obs.content \in Failures
    THEN StepRaise(PlaywrightFailure(obs.content), trace \o <<"content">>)
    ELSE IF AnyWord(PostLoginWords, obs.content)
    THEN StepRaise(PermanentError(WithUrl(
             "Login appeared successful but post-login elements missing - likely incorrect credentials. Current URL: ",
             obs.url)), trace \o <<"content">>)
    ELSE StepRaise(TemporaryError(WithUrl(
             "Post-login elements not found. Current URL: ", obs.url)),
             trace \o <<"content">>)

\* lines 336-340: wait_for_url timed out on the login path
StillOnLogin(obs, trace) ==
    StepRaise(TemporaryError(WithUrl("Still on login page: ", obs.url)),
              trace)

\* lines 271-361: the try block of _step_login; self.browser_context of
\* line 355 is set in every live run (lines 59 and 123)
LoginBody(obs, session_file, storage_state_path) ==
    LET probe == SessionProbe(obs, session_file)
        t1 == probe.trace \o <<"goto login">>
        t2 == t1 \o <<"popups", "wait username">>
        t3 == t2 \o FormTrace(obs.form)
        t4 == t3 \o <<"popups", "wait_for_url">>
        t5 == t4 \o <<"wait marker">>
    IN  IF probe.cached
        THEN StepReturn([StepDict("login", TRUE) EXCEPT !.cached = TRUE],
                        probe.trace)
        ELSE IF obs.goto \in Failures
        THEN StepRaise(PlaywrightFailure(obs.goto), t1)
        ELSE IF obs.visible # "visible" THEN UsernameHidden(obs, t2)
        ELSE IF obs.form # "ok"
        THEN StepRaise(PlaywrightFailure("TimeoutError"), t3)
        ELSE IF obs.wait_url \in Failures \ {"TimeoutError"}
        THEN StepRaise(PlaywrightFailure(obs.wait_url), t4)
        ELSE IF obs.wait_url = "TimeoutError" /\ "/login" \in Occurs(obs.url)
        THEN StillOnLogin(obs, t4)
        ELSE IF obs.marker # "visible" THEN MarkerHidden(obs, t5)
        ELSE IF storage_state_path
        THEN StepReturn(StepDict("login", TRUE), t5 \o <<"storage_state">>)
        ELSE StepReturn(StepDict("login", TRUE), t5)

\* lines 374-384: except PlaywrightTimeoutError
LoginTimeoutHandler(exc) ==
    IF is_login_error(exc) THEN classify_and_raise(exc.text)
    ELSE TemporaryError(exc.text)

\* lines 385-415: except Exception
LoginExceptionHandler(exc) ==
    IF is_login_error(exc)
    THEN IF AnyWord({"password", "credential", "auth"}, exc.text)
         THEN classify_and_raise(exc.text)
         ELSE IF is_network_error(exc) \/ is_timeout_error(exc)
         THEN TemporaryError(exc.text)
         ELSE classify_and_raise(exc.text)
    ELSE IF is_network_error(exc) \/ is_timeout_error(exc)
    THEN TemporaryError(exc.text)
    ELSE IF is_element_not_found_error(exc) THEN TemporaryError(exc.text)
    ELSE IF is_permanent_error(exc.text) THEN classify_and_raise(exc.text)
    ELSE TemporaryError(exc.text)

\* lines 363-415: the except clauses.  error_msg is a prefix followed by
\* str(e); the prefixes contain no pattern of PERMANENT_ERROR_PATTERNS, and
\* the text is kept as str(e)
LoginHandlers(body) ==
    LET exc == [type |-> body.type, text |-> body.text] IN
    IF body.kind = "return" THEN body
    ELSE IF exc.type = "PermanentError"
    THEN StepReturn([StepDict("login", FALSE) EXCEPT !.error = exc.text],
                    body.trace)
    ELSE IF exc.type = "PlaywrightTimeoutError"
    THEN StepRaise(LoginTimeoutHandler(exc), body.trace)
    ELSE StepRaise(LoginExceptionHandler(exc), body.trace)

\* a dry run returns the simulated result at the top of the function
Simulated(step) == [StepDict(step, TRUE) EXCEPT !.simulated = TRUE]

\* lines 266-415
step_login(obs, dry_run, session_file, storage_state_path) ==
    IF dry_run THEN StepReturn(Simulated("login"), <<>>)
    ELSE LoginHandlers(LoginBody(obs, session_file, storage_state_path))

\* lines 440-446, 516, 615: the login words the steps look for in the URL
LoginWords == {"/login", "login-page"}

\* the except PlaywrightTimeoutError clause of the three steps after the
\* login: lines 459-465, 547-553, 631-637
StepTimeoutHandler(exc) ==
    IF is_timeout_error(exc) THEN TemporaryError(exc.text)
    ELSE classify_and_raise(exc.text)

\* the except Exception clause of the three steps after the login: lines
\* 466-480, 554-567, 638-659; page.url is read again
StepExceptionHandler(exc, url) ==
    IF is_network_error(exc) \/ is_timeout_error(exc)
    THEN TemporaryError(exc.text)
    ELSE IF "login" \in Occurs(url) \/ "/login" \in Occurs(url)
    THEN PermanentError(exc.text)
    ELSE IF is_permanent_error(exc.text) THEN classify_and_raise(exc.text)
    ELSE TemporaryError(exc.text)

\* the three except clauses of _step_navigate_to_contract (451-480) and of
\* _step_navigate_to_copy_trading (530-567)
StepHandlers(step, body, url) ==
    LET exc == [type |-> body.type, text |-> body.text] IN
    IF body.kind = "return" THEN body
    ELSE IF exc.type = "PermanentError"
    THEN StepReturn([StepDict(step, FALSE) EXCEPT !.error = exc.text],
                    body.trace)
    ELSE IF exc.type = "PlaywrightTimeoutError"
    THEN StepRaise(StepTimeoutHandler(exc), body.trace)
    ELSE StepRaise(StepExceptionHandler(exc, url), body.trace)

ContractMarkerAbsent_AlwaysTemporary(obs, trace) ==
    StepRaise(TemporaryError(WithUrl(
        "Contract page elements not found. Current URL: ", obs.url)), trace)

\* lines 436-448: the marker of the contract page did not become visible
ContractMarkerAbsent(obs, trace) ==
    IF obs.content \in Failures
    THEN StepRaise(PlaywrightFailure(obs.content), trace)
    ELSE IF AnyWord(LoginWords, obs.url)
    THEN StepRaise(PermanentError(WithUrl(
             "Not logged in when navigating to contract. Redirected to: ",
             obs.url)), trace)
    ELSE IF AnyWord({"error", "not found"}, obs.content)
    THEN StepRaise(PermanentError(WithUrl(
             "Contract page returned error: ", obs.url)), trace)
    ELSE StepRaise(TemporaryError(WithUrl(
             "Contract page elements not found. Current URL: ", obs.url)),
             trace)

\* lines 424-450: the try block of _step_navigate_to_contract
ContractBody(obs) ==
    LET t1 == <<"goto contract">>
        t2 == t1 \o <<"popups", "wait contract">>
    IN  IF obs.goto \in Failures
        THEN StepRaise(PlaywrightFailure(obs.goto), t1)
        ELSE IF obs.visible # "visible"
        THEN ContractMarkerAbsent(obs, t2 \o <<"content">>)
        ELSE StepReturn(StepDict("navigate_to_contract", TRUE), t2)

\* lines 417-494
step_navigate_to_contract(obs, dry_run) ==
    IF dry_run THEN StepReturn(Simulated("navigate_to_contract"), <<>>)
    ELSE StepHandlers("navigate_to_contract", ContractBody(obs), obs.url)

ClickFailed_AlwaysTemporary(obs, trace) ==
    StepRaise(TemporaryError(WithUrl(
        "Copy trading button exists but couldn't be clicked. Current URL: ",
        obs.url)), trace)

\* lines 512-526: the safe click on the copy trading button failed
ClickFailed(obs, trace) ==
    IF obs.content \in Failures
    THEN StepRaise(PlaywrightFailure(obs.content), trace)
    ELSE IF AnyWord(LoginWords, obs.url)
    THEN StepRaise(PermanentError(WithUrl(
             "Logged out when navigating to copy trading. Redirected to: ",
             obs.url)), trace)
    ELSE IF obs.count \in Failures
    THEN StepRaise(PlaywrightFailure(obs.count), trace \o <<"count">>)
    ELSE IF obs.count = "present"
    THEN StepRaise(TemporaryError(WithUrl(
             "Copy trading button exists but couldn't be clicked. Current URL: ",
             obs.url)), trace \o <<"count">>)
    ELSE StepRaise(PermanentError(WithUrl(
             "Copy trading button not found. UI might have changed. Current URL: ",
             obs.url)), trace \o <<"count">>)

\* lines 507-528: the try block of _step_navigate_to_copy_trading
CopyTradingBody(obs) ==
    LET t1 == <<"popups", "click copy trading">> IN
    IF obs.clicked # "clicked" THEN ClickFailed(obs, t1 \o <<"content">>)
    ELSE StepReturn(StepDict("navigate_to_copy_trading", TRUE), t1)

\* lines 496-581
step_navigate_to_copy_trading(obs, dry_run) ==
    IF dry_run THEN StepReturn(Simulated("navigate_to_copy_trading"), <<>>)
    ELSE StepHandlers("navigate_to_copy_trading", CopyTradingBody(obs),
                      obs.url)

\* line 605: for attempt in range(2)
Waits == 2

\* lines 603-610: the loop of visibility waits; seen[i] is what the i-th
\* wait returned, had it been made
WaitLoop_FoundAnyway(seen, attempt, trace) ==
    [found |-> TRUE, trace |-> trace \o <<"wait order input">>]

RECURSIVE WaitLoop(_, _, _)
WaitLoop(seen, attempt, trace) ==
    IF attempt >= Waits THEN [found |-> FALSE, trace |-> trace]
    ELSE IF seen[attempt + 1] = "visible"
    THEN [found |-> TRUE, trace |-> trace \o <<"wait order input">>]
    ELSE IF attempt < 1
    THEN WaitLoop(seen, attempt + 1,
                  trace \o <<"wait order input", "popups", "sleep">>)
    ELSE WaitLoop(seen, attempt + 1, trace \o <<"wait order input">>)

\* lines 612-623: the order input was not found
InputNotFound(obs, trace) ==
    IF AnyWord(LoginWords, obs.url)
    THEN StepRaise(PermanentError(WithUrl(
             "Logged out when entering order number. Redirected to: ",
             obs.url)), trace)
    ELSE IF obs.count \in Failures
    THEN StepRaise(PlaywrightFailure(obs.count), trace \o <<"count">>)
    ELSE IF obs.count = "present"
    THEN StepRaise(TemporaryError(WithUrl(
             "Order number input exists but couldn't be found. Current URL: ",
             obs.url)), trace \o <<"count">>)
    ELSE StepRaise(TemporaryError(WithUrl(
             "Order number input not found after retries. Current URL: ",
             obs.url)), trace \o <<"count">>)

\* lines 594-630: the try block of _step_enter_order_number
OrderNumberBody(obs, order_number) ==
    LET loop == WaitLoop(<<obs.visible, obs.visible2>>, 0,
                         <<"popups", "sleep">>)
    IN  IF ~loop.found THEN InputNotFound(obs, loop.trace)
        ELSE IF obs.fill \in Failures
        THEN StepRaise(PlaywrightFailure(obs.fill),
                       loop.trace \o <<"fill order number">>)
        ELSE StepReturn([StepDict("enter_order_number", TRUE)
                            EXCEPT !.order_number = order_number],
                        loop.trace \o <<"fill order number">>)

\* lines 631-659: the two except clauses; a PermanentError of the try block
\* reaches except Exception
OrderNumberHandlers(body, url) ==
    LET exc == [type |-> body.type, text |-> body.text] IN
    IF body.kind = "return" THEN body
    ELSE IF exc.type = "PlaywrightTimeoutError"
    THEN StepRaise(StepTimeoutHandler(exc), body.trace)
    ELSE StepRaise(StepExceptionHandler(exc, url), body.trace)

\* lines 583-659
step_enter_order_number(obs, order_number, dry_run) ==
    IF dry_run
    THEN StepReturn([Simulated("enter_order_number")
                        EXCEPT !.order_number = order_number], <<>>)
    ELSE OrderNumberHandlers(OrderNumberBody(obs, order_number), obs.url)

\* report["steps"] when the entry operation calls step: the results of the
\* steps before it
RECURSIVE PriorSteps(_, _)
PriorSteps(step, dry_run) ==
    IF step = StepOrder[1] THEN <<>>
    ELSE LET i == CHOOSE k \in 1..Len(StepOrder) : StepOrder[k] = step
             prev == StepOrder[i - 1]
         IN  Append(PriorSteps(prev, dry_run),
                    IF dry_run THEN Simulated(prev) ELSE StepDict(prev, TRUE))

\* the step functions of this specification
StepFunctions ==
    {"login", "navigate_to_contract", "navigate_to_copy_trading",
     "enter_order_number"}

\* the urls page.url can give once the wait for a URL without 'login'
\* returned
LeftLogin == {url \in Urls : ~AnyWord({"login"}, url)}

\* what an invocation of _step_login can observe, call by call
LoginObservations(session_file, storage_state_path) ==
    LET credential(base) ==
            {[base EXCEPT !.goto = f] : f \in Failures}
            \cup {[base EXCEPT !.goto = "ok", !.visible = "hidden",
                               !.url = url] :
                    url \in {u \in Urls : "/login" \notin Occurs(u)}}
            \cup {[base EXCEPT !.goto = "ok", !.visible = "hidden",
                               !.url = LoginUrl, !.content = f] :
                    f \in Failures}
            \cup {[base EXCEPT !.goto = "ok", !.visible = "hidden",
                               !.url = LoginUrl, !.content = c,
                               !.screenshot = p] :
                    c \in Contents, p \in {"ok"} \cup Failures}
            \cup {[base EXCEPT !.goto = "ok", !.visible = "visible",
                               !.form = FormCalls[i]] :
                    i \in 1..Len(FormCalls)}
            \cup {[base EXCEPT !.goto = "ok", !.visible = "visible",
                               !.form = "ok", !.wait_url = f] :
                    f \in Failures \ {"TimeoutError"}}
            \* the page shows a content here that the invocation does not
            \* read
            \cup {[base EXCEPT !.goto = "ok", !.visible = "visible",
                               !.form = "ok", !.wait_url = "TimeoutError",
                               !.url = LoginUrl, !.content = c] :
                    c \in Contents}
            \cup UNION {
                 {[base EXCEPT !.goto = "ok", !.visible = "visible",
                               !.form = "ok", !.wait_url = w.wait,
                               !.url = w.url, !.marker = "hidden",
                               !.content = c] :
                    c \in Contents \cup Failures}
                 \cup
                 {[base EXCEPT !.goto = "ok", !.visible = "visible",
                               !.form = "ok", !.wait_url = w.wait,
                               !.url = IF w.wait = "ok" THEN Unread
                                       ELSE w.url,
                               !.marker = "visible", !.save = p] :
                    p \in IF storage_state_path
                          THEN {"ok"} \cup Failures ELSE {Unread}}
                 : w \in [wait : {"ok", "TimeoutError"}, url : LeftLogin]}
    IN  IF session_file
        THEN {[NoStepObs EXCEPT !.probe = "marker"]}
             \cup UNION {credential([NoStepObs EXCEPT !.probe = p]) :
                            p \in {"hidden"} \cup Failures}
        ELSE credential(NoStepObs)

\* the except Exception clause reads page.url unless the error is a network
\* error or a timeout
HandlerReadsUrl(failure) ==
    LET exc == PlaywrightFailure(failure) IN
    /\ exc.type # "PlaywrightTimeoutError"
    /\ ~ (is_network_error(exc) \/ is_timeout_error(exc))

\* the observations in which a Playwright call fails after the calls of base
Failing(base, field) ==
    UNION {IF HandlerReadsUrl(f)
           THEN {[base EXCEPT ![field] = f, !.url = url] : url \in Urls}
           ELSE {[base EXCEPT ![field] = f]} : f \in Failures}

\* what an invocation of _step_navigate_to_contract can observe
ContractObservations ==
    Failing(NoStepObs, "goto")
    \cup {[NoStepObs EXCEPT !.goto = "ok", !.visible = "visible"]}
    \cup UNION {Failing([NoStepObs EXCEPT !.goto = "ok",
                                          !.visible = "hidden"], "content")}
    \cup {[NoStepObs EXCEPT !.goto = "ok", !.visible = "hidden",
                            !.url = url, !.content = c] :
            url \in Urls, c \in Contents}

\* what an invocation of _step_navigate_to_copy_trading can observe
CopyTradingObservations ==
    {[NoStepObs EXCEPT !.clicked = "clicked"]}
    \cup Failing([NoStepObs EXCEPT !.clicked = "failed"], "content")
    \cup {[NoStepObs EXCEPT !.clicked = "failed", !.url = LoginUrl,
                            !.content = c] : c \in Contents}
    \cup UNION {{[NoStepObs EXCEPT !.clicked = "failed", !.url = url,
                                   !.content = c, !.count = n] :
                    n \in {"present", "absent"} \cup Failures}
                : url \in Urls \ {LoginUrl}, c \in {"Loading"}}

\* what an invocation of _step_enter_order_number can observe
OrderNumberObservations ==
    LET waits == {[NoStepObs EXCEPT !.visible = "visible"],
                  [NoStepObs EXCEPT !.visible = "hidden",
                                    !.visible2 = "visible"]}
        hidden == [NoStepObs EXCEPT !.visible = "hidden",
                                    !.visible2 = "hidden"]
    IN  {[w EXCEPT !.fill = "ok"] : w \in waits}
        \cup UNION {Failing(w, "fill") : w \in waits}
        \cup {[hidden EXCEPT !.url = LoginUrl]}
        \cup {[hidden EXCEPT !.url = url, !.count = n] :
                url \in Urls \ {LoginUrl},
                n \in {"present", "absent"} \cup Failures}

\* what one invocation of a step function can observe
StepObservations(step, dry_run, session_file, storage_state_path) ==
    IF dry_run THEN {NoStepObs}
    ELSE IF step = "login"
    THEN LoginObservations(session_file, storage_state_path)
    ELSE IF step = "navigate_to_contract" THEN ContractObservations
    ELSE IF step = "navigate_to_copy_trading" THEN CopyTradingObservations
    ELSE OrderNumberObservations

\* the step function called with what the workflow passes to it
StepFunction(step, obs, order_number, dry_run, file, path) ==
    IF step = "login"
    THEN step_login(obs, dry_run, file, path)
    ELSE IF step = "navigate_to_contract"
    THEN step_navigate_to_contract(obs, dry_run)
    ELSE IF step = "navigate_to_copy_trading"
    THEN step_navigate_to_copy_trading(obs, dry_run)
    ELSE step_enter_order_number(obs, order_number, dry_run)

\* the order number execute_copy_trade passes to _step_enter_order_number
StepOrderNumber == "ORDER123"

\* one invocation of the step function: by the retry wrapper for the
\* decorated steps, by execute_copy_trade itself for _step_enter_order_number
StepFnCall ==
    /\ s_pc = "call"
    /\ \E obs \in StepObservations(s_step, s_dry_run, s_session_file,
                                   s_storage_state_path) :
        LET outcome == StepFunction(s_step, obs, StepOrderNumber, s_dry_run,
                                    s_session_file, s_storage_state_path)
            exc == [type |-> outcome.type, text |-> outcome.text]
        IN
        /\ s_obs' = obs
        /\ s_log' = Append(s_log, [kind |-> outcome.kind,
                                   type |-> outcome.type])
        /\ s_outcome' = outcome
        /\ s_saves' = s_saves + Cardinality(Calls(outcome.trace,
                                                  "storage_state"))
        /\ s_session_file' = (s_session_file \/ obs.save = "ok")
        /\ IF outcome.kind = "return"
           THEN s_pc' = "returned" /\ s_result' = outcome
           ELSE IF ~Decorated(s_step)
                   \/ ExceptHandler(exc, s_attempt, StepMaxAttempts, {})
                        = "raise"
           THEN s_pc' = "raised" /\ s_result' = outcome
           ELSE s_pc' = "sleep" /\ s_result' = s_result
    /\ UNCHANGED <<s_step, s_dry_run, s_storage_state_path, s_attempt,
                   s_steps>>
    /\ UNCHANGED <<retryVars, wfVars, orchVars, poolVars, followVars,
                   classVars, helpVars, acctVars, botVars, entryVars>>

\* the wrapper's sleep between two attempts; the invocation that raised is
\* over
StepFnSleep ==
    /\ s_pc = "sleep"
    /\ s_attempt' = s_attempt + 1
    /\ s_pc' = "call"
    /\ s_obs' = NoStepObs
    /\ s_outcome' = NoStepOutcome
    /\ UNCHANGED <<s_step, s_dry_run, s_session_file, s_storage_state_path,
                   s_log, s_saves, s_result, s_steps>>
    /\ UNCHANGED <<retryVars, wfVars, orchVars, poolVars, followVars,
                   classVars, helpVars, acctVars, botVars, entryVars>>

\* execute_copy_trade / execute_login: report["steps"].append(result)
StepFnAppend ==
    /\ s_pc = "returned"
    /\ s_steps' = Append(s_steps, s_result.result)
    /\ s_pc' = "appended"
    /\ UNCHANGED <<s_step, s_dry_run, s_session_file, s_storage_state_path,
                   s_attempt, s_obs, s_log, s_outcome, s_saves, s_result>>
    /\ UNCHANGED <<retryVars, wfVars, orchVars, poolVars, followVars,
                   classVars, helpVars, acctVars, botVars, entryVars>>

StepsNext == StepFnCall \/ StepFnSleep \/ StepFnAppend

----------------------------------------------------------------------------
(* utils/web_utils.py: WebErrorHandler.handle_common_popups,                *)
(* wait_for_element_safe and click_element_safe, one awaited call of the    *)
(* page at a time                                                           *)

Helpers ==
    {"handle_common_popups", "wait_for_element_safe", "click_element_safe"}

\* timeout: Optional[int] = None
NoTimeout == 0

\* config.py: default_timeout
default_timeout == 20000

\* the timeouts the workflow passes, and None
TimeoutArgs == {NoTimeout, 5000, 15000}

\* lines 131-132, 148-149: if timeout is None: timeout = default_timeout
EffectiveTimeout(timeout) ==
    IF timeout = NoTimeout THEN default_timeout ELSE timeout

\* lines 30-31: the bare except of handle_common_popups
PopupsExcept(failure) == TRUE

SafeExcept_OnlyTimeout(failure) ==
    IsInstance(PlaywrightFailure(failure), "PlaywrightTimeoutError")

\* lines 140, 157: except (PlaywrightTimeoutError, Exception)
SafeExcept(failure) ==
    \/ IsInstance(PlaywrightFailure(failure), "PlaywrightTimeoutError")
    \/ IsInstance(PlaywrightFailure(failure), "Exception")

\* where a helper is after handle_common_popups returned
AfterPopups(op) ==
    IF op = "handle_common_popups" THEN "returned" ELSE "wait_for"

\* a call of the page with its timeout and what the page answered
PageCall(call, timeout, answer) ==
    [call |-> call, timeout |-> timeout, answer |-> answer]

\* the helper is entered; its first awaited call is the is_visible of
\* handle_common_popups: its own (line 27), or the one of the dismissal it
\* invokes (lines 136, 152)
HelperEnter ==
    /\ h_pc = "entry"
    /\ h_dismissals' = h_dismissals + 1
    /\ h_pc' = "is_visible"
    /\ UNCHANGED <<h_op, h_timeout, h_calls, h_result>>
    /\ UNCHANGED <<retryVars, wfVars, orchVars, poolVars, followVars,
                   classVars, stepVars, acctVars, botVars, entryVars>>

\* a call of handle_common_popups failed with failure: what the helper
\* does next
PopupsFailed(op, failure) ==
    IF PopupsExcept(failure)
    THEN [pc |-> AfterPopups(op),
          result |-> IF op = "handle_common_popups" THEN "False"
                     ELSE "none"]
    ELSE IF op # "handle_common_popups" /\ SafeExcept(failure)
    THEN [pc |-> "returned", result |-> "False"]
    ELSE [pc |-> "returned", result |-> "raised"]

\* a call of a safe helper failed with failure
SafeFailed(failure) ==
    IF SafeExcept(failure) THEN "False" ELSE "raised"

\* line 27: cookie_button.is_visible(timeout=1000)
PopupsIsVisible ==
    /\ h_pc = "is_visible"
    /\ \E answer \in {"visible", "hidden"} \cup Failures :
        /\ h_calls' = Append(h_calls, PageCall("is_visible", 1000, answer))
        /\ IF answer = "visible"
           THEN h_pc' = "cookie_click" /\ UNCHANGED h_result
           ELSE IF answer = "hidden"
           THEN /\ h_pc' = AfterPopups(h_op)
                /\ h_result' = IF h_op = "handle_common_popups"
                               THEN "False" ELSE h_result
           ELSE /\ h_pc' = PopupsFailed(h_op, answer).pc
                /\ h_result' = PopupsFailed(h_op, answer).result
    /\ UNCHANGED <<h_op, h_timeout, h_dismissals>>
    /\ UNCHANGED <<retryVars, wfVars, orchVars, poolVars, followVars,
                   classVars, stepVars, acctVars, botVars, entryVars>>

\* line 28: cookie_button.click(timeout=1000)
PopupsCookieClick ==
    /\ h_pc = "cookie_click"
    /\ \E answer \in {"ok"} \cup Failures :
        /\ h_calls' = Append(h_calls, PageCall("cookie click", 1000, answer))
        /\ IF answer = "ok"
           THEN /\ h_pc' = AfterPopups(h_op)
                /\ h_result' = IF h_op = "handle_common_popups"
                               THEN "True" ELSE h_result
           ELSE /\ h_pc' = PopupsFailed(h_op, answer).pc
                /\ h_result' = PopupsFailed(h_op, answer).result
    /\ UNCHANGED <<h_op, h_timeout, h_dismissals>>
    /\ UNCHANGED <<retryVars, wfVars, orchVars, poolVars, followVars,
                   classVars, stepVars, acctVars, botVars, entryVars>>

\* lines 138, 154: element.wait_for(state="visible", timeout=timeout)
HelperWaitFor ==
    /\ h_pc = "wait_for"
    /\ \E answer \in {"ok"} \cup Failures :
        /\ h_calls' = Append(h_calls,
                PageCall("wait_for", EffectiveTimeout(h_timeout), answer))
        /\ IF answer # "ok"
           THEN h_pc' = "returned" /\ h_result' = SafeFailed(answer)
           ELSE IF h_op = "wait_for_element_safe"
           THEN h_pc' = "returned" /\ h_result' = "True"
           ELSE h_pc' = "click" /\ UNCHANGED h_result
    /\ UNCHANGED <<h_op, h_timeout, h_dismissals>>
    /\ UNCHANGED <<retryVars, wfVars, orchVars, poolVars, followVars,
                   classVars, stepVars, acctVars, botVars, entryVars>>

\* line 155: element.click(timeout=timeout)
HelperClick ==
    /\ h_pc = "click"
    /\ \E answer \in {"ok"} \cup Failures :
        /\ h_calls' = Append(h_calls,
                PageCall("click", EffectiveTimeout(h_timeout), answer))
        /\ h_pc' = "returned"
        /\ h_result' = IF answer = "ok" THEN "True" ELSE SafeFailed(answer)
    /\ UNCHANGED <<h_op, h_timeout, h_dismissals>>
    /\ UNCHANGED <<retryVars, wfVars, orchVars, poolVars, followVars,
                   classVars, stepVars, acctVars, botVars, entryVars>>

HelpersNext ==
    \/ HelperEnter
    \/ PopupsIsVisible
    \/ PopupsCookieClick
    \/ HelperWaitFor
    \/ HelperClick

----------------------------------------------------------------------------
(* actions.py: run_copy_trade_for_account from its try statement on, call   *)
(* by call.  The lines before the try only build storage_state_path.        *)

\* AccountCredentials: account_name is the unique key, username the login
Account(account_name, username) ==
    [account_name |-> account_name, username |-> username]

NoAccount == Account("none", "none")

\* accounts of accounts.json, and the account get_accounts_to_process builds
\* from the environment (account_name = "default_account")
AccountsToRun ==
    {Account("alice", "alice"), Account("main", "bob@example.com"),
     Account("default_account", "carol@example.com")}

Report(account_name, success, error, steps) ==
    [account_name |-> account_name, success |-> success, error |-> error,
     steps |-> steps]

\* the reports execute_copy_trade returns for a workflow built with
\* username = account.username: report["account_name"] is self.username;
\* a success, a run ended by an exception (with an error), and a run ended
\* by a failed step result (without one)
WorkflowReports(username) ==
    {Report(username, TRUE, "none", StepOrder),
     Report(username, FALSE, "Permanent error", <<>>),
     Report(username, FALSE, "Unexpected error", <<"login">>),
     Report(username, FALSE, "none", <<"login">>)}

\* lines 105-111: the report of the except clause
CrashReport(account, e) == Report(account.account_name, FALSE, e, <<>>)

\* what a call holds or ends in: a report to return or an exception
AccountOutcome(kind, rep, exc) == [kind |-> kind, report |-> rep, exc |-> exc]

NoAccountOutcome == AccountOutcome("none", Report("none", FALSE, "none", <<>>), "none")

Returns(rep) == AccountOutcome("return", rep, "none")

Raises(exc) == AccountOutcome("raise", Report("none", FALSE, "none", <<>>), exc)

\* line 83: page = await context.new_page(); when it raises, page stays
\* unbound and the except clause runs
AccountNewPage ==
    /\ a_pc = "new_page"
    /\ \E created \in BOOLEAN :
        IF created
        THEN a_page' = "open" /\ a_pc' = "workflow" /\ a_pending' = a_pending
        ELSE a_page' = a_page /\ a_pc' = "except"
             /\ a_pending' = Raises("Error")
    /\ UNCHANGED <<a_account, a_notify, a_result, a_messages>>
    /\ UNCHANGED <<retryVars, wfVars, orchVars, poolVars, followVars, classVars, stepVars, helpVars, botVars, entryVars>>

\* lines 84-98 up to the notification: the workflow returns its report; the
\* page may have been closed under it
AccountWorkflow ==
    /\ a_pc = "workflow"
    /\ \E rep \in WorkflowReports(a_account.username), closed \in BOOLEAN :
        /\ a_page' = IF closed THEN "closed" ELSE "open"
        /\ a_pending' = Returns(rep)
        /\ a_pc' = IF ~rep.success /\ a_notify THEN "notify" ELSE "finally"
    /\ UNCHANGED <<a_account, a_notify, a_result, a_messages>>
    /\ UNCHANGED <<retryVars, wfVars, orchVars, poolVars, followVars, classVars, stepVars, helpVars, botVars, entryVars>>

\* line 97: telethon_client.send_message inside the try
AccountNotifyFailure ==
    /\ a_pc = "notify"
    /\ \E sent \in BOOLEAN :
        IF sent
        THEN a_messages' = a_messages + 1 /\ a_pc' = "finally"
             /\ a_pending' = a_pending
        ELSE a_messages' = a_messages /\ a_pc' = "except"
             /\ a_pending' = Raises("SendError")
    /\ UNCHANGED <<a_account, a_notify, a_page, a_result>>
    /\ UNCHANGED <<retryVars, wfVars, orchVars, poolVars, followVars, classVars, stepVars, helpVars, botVars, entryVars>>

\* lines 99-111: except Exception as e: notify, then return the crash report
AccountExcept ==
    /\ a_pc = "except"
    /\ \E sent \in (IF a_notify THEN BOOLEAN ELSE {TRUE}) :
        IF sent
        THEN /\ a_messages' = IF a_notify THEN a_messages + 1 ELSE a_messages
             /\ a_pending' = Returns(CrashReport(a_account, a_pending.exc))
        ELSE /\ a_messages' = a_messages
             /\ a_pending' = Raises("SendError")
    /\ a_pc' = "finally"
    /\ UNCHANGED <<a_account, a_notify, a_page, a_result>>
    /\ UNCHANGED <<retryVars, wfVars, orchVars, poolVars, followVars, classVars, stepVars, helpVars, botVars, entryVars>>

\* lines 112-114: finally: if page and not page.is_closed(): await
\* page.close().  Reading the unbound local page raises UnboundLocalError,
\* which replaces the pending return; so does a failure of page.close().
FinallyClause(page, pending, close_returns) ==
    IF page = "unbound" THEN [page |-> page, outcome |-> Raises("UnboundLocalError")]
    ELSE IF page = "closed" THEN [page |-> page, outcome |-> pending]
    ELSE IF close_returns THEN [page |-> "closed", outcome |-> pending]
    ELSE [page |-> page, outcome |-> Raises("CloseError")]

AccountFinally ==
    /\ a_pc = "finally"
    /\ \E close_returns \in BOOLEAN :
        LET f == FinallyClause(a_page, a_pending, close_returns) IN
        /\ a_page' = f.page
        /\ a_result' = f.outcome
        /\ a_pc' = IF f.outcome.kind = "return" THEN "returned" ELSE "raised"
    /\ UNCHANGED <<a_account, a_notify, a_pending, a_messages>>
    /\ UNCHANGED <<retryVars, wfVars, orchVars, poolVars, followVars, classVars, stepVars, helpVars, botVars, entryVars>>

AccountNext ==
    \/ AccountNewPage
    \/ AccountWorkflow
    \/ AccountNotifyFailure
    \/ AccountExcept
    \/ AccountFinally

----------------------------------------------------------------------------
(* telegram_bot.py: run_bot, started in several processes that share the    *)
(* working directory and so the lock file bot.lock                          *)

NumBots == 3

Bots == 1..NumBots

\* lines 96-98: if LOCK_FILE.exists(): sys.exit(1), before the try
BotCheck(i) ==
    /\ b_pc[i] = "start"
    /\ b_pc' = [b_pc EXCEPT ![i] = IF b_lock THEN "exited" ELSE "create"]
    /\ UNCHANGED b_lock
    /\ UNCHANGED <<retryVars, wfVars, orchVars, poolVars, followVars, classVars, stepVars, helpVars, acctVars, entryVars>>

\* lines 101-102: with open(LOCK_FILE, "w") as f: f.write(str(os.getpid()));
\* mode "w" creates the file or truncates the one that is there
BotCreate(i) ==
    /\ b_pc[i] = "create"
    /\ b_lock' = TRUE
    /\ b_pc' = [b_pc EXCEPT ![i] = "startup"]
    /\ UNCHANGED <<retryVars, wfVars, orchVars, poolVars, followVars, classVars, stepVars, helpVars, acctVars, entryVars>>

\* lines 104-160: the configuration test, TelegramClient(...).start and the
\* handlers; a failure (the ValueError of line 105, a failed start) goes to
\* the finally clause
BotStartup(i) ==
    /\ b_pc[i] = "startup"
    /\ \E started \in BOOLEAN :
        b_pc' = [b_pc EXCEPT ![i] = IF started THEN "running" ELSE "failed"]
    /\ UNCHANGED b_lock
    /\ UNCHANGED <<retryVars, wfVars, orchVars, poolVars, followVars, classVars, stepVars, helpVars, acctVars, entryVars>>

\* line 161: bot.run_until_disconnected() returns or raises
BotDisconnect(i) ==
    /\ b_pc[i] = "running"
    /\ b_pc' = [b_pc EXCEPT ![i] = "disconnected"]
    /\ UNCHANGED b_lock
    /\ UNCHANGED <<retryVars, wfVars, orchVars, poolVars, followVars, classVars, stepVars, helpVars, acctVars, entryVars>>

\* lines 163-166: finally: if LOCK_FILE.exists(): LOCK_FILE.unlink(), after
\* a failed startup and after the bot was disconnected alike
BotFinally(i) ==
    /\ b_pc[i] \in {"failed", "disconnected"}
    /\ b_lock' = FALSE
    /\ b_pc' = [b_pc EXCEPT ![i] = "stopped"]
    /\ UNCHANGED <<retryVars, wfVars, orchVars, poolVars, followVars, classVars, stepVars, helpVars, acctVars, entryVars>>

BotNext ==
    \/ \E i \in Bots : BotCheck(i)
    \/ \E i \in Bots : BotCreate(i)
    \/ \E i \in Bots : BotStartup(i)
    \/ \E i \in Bots : BotDisconnect(i)
    \/ \E i \in Bots : BotFinally(i)

----------------------------------------------------------------------------
(* The entry points that run accounts: the CLI commands login and           *)
(* copy-trade (cli.py), the background tasks of the webhook server          *)
(* (server/main.py) and of the Telegram bot (telegram_bot.py), and          *)
(* orchestrate_accounts called directly.  An account list is modelled by    *)
(* its length.                                                              *)

MaxFileAccounts == 2

Entries ==
    {"cli_login", "cli_copy_trade", "webhook_task", "telegram_task",
     "orchestrate_accounts"}

\* actions.py 18-32: the accounts of accounts.json, else the one account of
\* the environment, else none
get_accounts_to_process(file_accounts, env) ==
    IF file_accounts > 0 THEN file_accounts
    ELSE IF env THEN 1
    ELSE 0

NoAccountsFound_Never(accounts) == FALSE

\* if not accounts_to_process: ... return
NoAccountsFound(accounts) == accounts = 0

\* what orchestrate_accounts returned: nothing yet, or the list of results
EntryResults(returned, value) == [returned |-> returned, value |-> value]

NoEntryResults == EntryResults(FALSE, <<>>)

\* cli.py 115-119: copy-trade asks for confirmation first (live run without
\* --yes); click.confirm(abort=True) ends the command on "no"
EntryConfirm ==
    /\ e_pc = "confirm"
    /\ \E proceed \in BOOLEAN :
        e_pc' = IF proceed THEN "load" ELSE "aborted"
    /\ UNCHANGED <<e_entry, e_file_accounts, e_env, e_accounts, e_browsers,
                   e_contexts, e_done, e_results>>
    /\ UNCHANGED <<retryVars, wfVars, orchVars, poolVars, followVars, classVars, stepVars, helpVars, acctVars, botVars>>

\* accounts = get_accounts_to_process(...); if not accounts: ... return
\* (cli.py 41-44 and 122-130, server/main.py 23-26, telegram_bot.py 25-29)
EntryLoadAccounts ==
    /\ e_pc = "load"
    /\ LET accounts == get_accounts_to_process(e_file_accounts, e_env) IN
        /\ e_accounts' = accounts
        /\ e_pc' = IF NoAccountsFound(accounts) THEN "returned" ELSE "launch"
    /\ UNCHANGED <<e_entry, e_file_accounts, e_env, e_browsers, e_contexts,
                   e_done, e_results>>
    /\ UNCHANGED <<retryVars, wfVars, orchVars, poolVars, followVars, classVars, stepVars, helpVars, acctVars, botVars>>

\* async with PlaywrightAdapter() as adapter:
\*     browser = await adapter.launch_browser(...)
EntryLaunch ==
    /\ e_pc = "launch"
    /\ \E launched \in BOOLEAN :
        IF launched
        THEN e_browsers' = e_browsers + 1 /\ e_pc' = "workers"
        ELSE e_browsers' = e_browsers /\ e_pc' = "failed"
    /\ UNCHANGED <<e_entry, e_file_accounts, e_env, e_accounts, e_contexts,
                   e_done, e_results>>
    /\ UNCHANGED <<retryVars, wfVars, orchVars, poolVars, followVars, classVars, stepVars, helpVars, acctVars, botVars>>

\* orchestrator.py 41-66: one worker per account creates its context and
\* ends in a report or in an exception
EntryWorker ==
    /\ e_pc = "workers"
    /\ Len(e_done) < e_accounts
    /\ e_contexts' = e_contexts + 1
    /\ \E outcome \in {"report", "exception"} : e_done' = Append(e_done, outcome)
    /\ UNCHANGED <<e_entry, e_file_accounts, e_env, e_accounts, e_pc,
                   e_browsers, e_results>>
    /\ UNCHANGED <<retryVars, wfVars, orchVars, poolVars, followVars, classVars, stepVars, helpVars, acctVars, botVars>>

\* orchestrator.py 68-75: results = await asyncio.gather(*tasks,
\* return_exceptions=True); return results.  With no task the list is empty.
EntryGather ==
    /\ e_pc = "workers"
    /\ Len(e_done) = e_accounts
    /\ e_results' = EntryResults(TRUE, e_done)
    /\ e_pc' = IF e_entry = "orchestrate_accounts" THEN "returned" ELSE "close"
    /\ UNCHANGED <<e_entry, e_file_accounts, e_env, e_accounts, e_browsers,
                   e_contexts, e_done>>
    /\ UNCHANGED <<retryVars, wfVars, orchVars, poolVars, followVars, classVars, stepVars, helpVars, acctVars, botVars>>

\* await browser.close(), then the summary
EntryCloseBrowser ==
    /\ e_pc = "close"
    /\ e_pc' = "returned"
    /\ UNCHANGED <<e_entry, e_file_accounts, e_env, e_accounts, e_browsers,
                   e_contexts, e_done, e_results>>
    /\ UNCHANGED <<retryVars, wfVars, orchVars, poolVars, followVars, classVars, stepVars, helpVars, acctVars, botVars>>

EntryNext ==
    \/ EntryConfirm
    \/ EntryLoadAccounts
    \/ EntryLaunch
    \/ EntryWorker
    \/ EntryGather
    \/ EntryCloseBrowser

----------------------------------------------------------------------------
(* Specifications *)

\* wrapper is entered: delay = base_delay, the loop starts at attempt 1;
\* the other components do not run
InitRetry ==
    /\ r_max_attempts \in 1..MaxAttemptsBound
    /\ r_permanent_errors \in {{}, {"ValueError"}, {"TemporaryError"}}
    /\ r_attempt = 1
    /\ r_delay = BaseDelay
    /\ r_pc = "call"
    /\ r_log = <<>>
    /\ r_sleeps = <<>>
    /\ r_result = NoOutcome
    /\ wf_op = "none"
    /\ wf_username = "none"
    /\ wf_order_number = "none"
    /\ wf_dry_run = FALSE
    /\ wf_skip_history = FALSE
    /\ wf_browser_context = FALSE
    /\ wf_page = FALSE
    /\ wf_pc = "idle"
    /\ wf_idx = 0
    /\ wf_attempt = 0
    /\ wf_calls = <<>>
    /\ wf_ops = 0
    /\ report = NewReport
    /\ o_max_concurrency = MaxConcurrency(TRUE, 0)
    /\ o_pc = <<>>
    /\ o_context = <<>>
    /\ o_pending = <<>>
    /\ o_task = <<>>
    /\ o_value = 0
    /\ o_waiters = <<>>
    /\ o_finished = <<>>
    /\ o_results = <<>>
    /\ o_main = "idle"
    /\ o_passed = <<>>
    /\ o_closes = <<>>
    /\ p_max_concurrency = MaxConcurrency(TRUE, 0)
    /\ p_pc = <<>>
    /\ p_value = 0
    /\ p_waiters = <<>>
    /\ p_admitted = <<>>
    /\ f_dry_run = FALSE
    /\ f_pc = "idle"
    /\ f_attempt = 0
    /\ f_obs = NoObservation
    /\ f_log = <<>>
    /\ f_result = NoFollowUpOutcome
    /\ c_text = ""
    /\ c_results = NoResults
    /\ s_step = "none"
    /\ s_dry_run = FALSE
    /\ s_session_file = FALSE
    /\ s_storage_state_path = FALSE
    /\ s_pc = "idle"
    /\ s_attempt = 0
    /\ s_obs = NoStepObs
    /\ s_log = <<>>
    /\ s_outcome = NoStepOutcome
    /\ s_saves = 0
    /\ s_result = NoStepOutcome
    /\ s_steps = <<>>
    /\ h_op = "none"
    /\ h_timeout = NoTimeout
    /\ h_pc = "idle"
    /\ h_calls = <<>>
    /\ h_dismissals = 0
    /\ h_result = "none"
    /\ a_account = NoAccount
    /\ a_notify = FALSE
    /\ a_pc = "idle"
    /\ a_page = "unbound"
    /\ a_pending = NoAccountOutcome
    /\ a_result = NoAccountOutcome
    /\ a_messages = 0
    /\ b_pc = <<>>
    /\ b_lock = FALSE
    /\ e_entry = "none"
    /\ e_file_accounts = 0
    /\ e_env = FALSE
    /\ e_accounts = 0
    /\ e_pc = "idle"
    /\ e_browsers = 0
    /\ e_contexts = 0
    /\ e_done = <<>>
    /\ e_results = NoEntryResults

\* a workflow object and the arguments of one entry operation, report as
\* the entry operation creates it; the other components do not run
InitWorkflow ==
    /\ r_max_attempts = 0
    /\ r_permanent_errors = {}
    /\ r_attempt = 0
    /\ r_delay = 0
    /\ r_pc = "idle"
    /\ r_log = <<>>
    /\ r_sleeps = <<>>
    /\ r_result = NoOutcome
    /\ wf_op \in {"execute_copy_trade", "execute_login"}
    /\ wf_username \in Usernames
    /\ wf_order_number \in
         (IF wf_op = "execute_copy_trade" THEN OrderNumbers ELSE {"none"})
    /\ wf_dry_run \in BOOLEAN
    /\ wf_skip_history \in BOOLEAN
    /\ wf_browser_context \in BOOLEAN
    /\ wf_page \in BOOLEAN
    /\ (wf_op = "execute_login" => wf_skip_history = FALSE)
    /\ wf_pc = "entry"
    /\ wf_idx = 0
    /\ wf_attempt = 0
    /\ wf_calls = <<>>
    /\ wf_ops = 0
    /\ report = NewReport
    /\ o_max_concurrency = MaxConcurrency(TRUE, 0)
    /\ o_pc = <<>>
    /\ o_context = <<>>
    /\ o_pending = <<>>
    /\ o_task = <<>>
    /\ o_value = 0
    /\ o_waiters = <<>>
    /\ o_finished = <<>>
    /\ o_results = <<>>
    /\ o_main = "idle"
    /\ o_passed = <<>>
    /\ o_closes = <<>>
    /\ p_max_concurrency = MaxConcurrency(TRUE, 0)
    /\ p_pc = <<>>
    /\ p_value = 0
    /\ p_waiters = <<>>
    /\ p_admitted = <<>>
    /\ f_dry_run = FALSE
    /\ f_pc = "idle"
    /\ f_attempt = 0
    /\ f_obs = NoObservation
    /\ f_log = <<>>
    /\ f_result = NoFollowUpOutcome
    /\ c_text = ""
    /\ c_results = NoResults
    /\ s_step = "none"
    /\ s_dry_run = FALSE
    /\ s_session_file = FALSE
    /\ s_storage_state_path = FALSE
    /\ s_pc = "idle"
    /\ s_attempt = 0
    /\ s_obs = NoStepObs
    /\ s_log = <<>>
    /\ s_outcome = NoStepOutcome
    /\ s_saves = 0
    /\ s_result = NoStepOutcome
    /\ s_steps = <<>>
    /\ h_op = "none"
    /\ h_timeout = NoTimeout
    /\ h_pc = "idle"
    /\ h_calls = <<>>
    /\ h_dismissals = 0
    /\ h_result = "none"
    /\ a_account = NoAccount
    /\ a_notify = FALSE
    /\ a_pc = "idle"
    /\ a_page = "unbound"
    /\ a_pending = NoAccountOutcome
    /\ a_result = NoAccountOutcome
    /\ a_messages = 0
    /\ b_pc = <<>>
    /\ b_lock = FALSE
    /\ e_entry = "none"
    /\ e_file_accounts = 0
    /\ e_env = FALSE
    /\ e_accounts = 0
    /\ e_pc = "idle"
    /\ e_browsers = 0
    /\ e_contexts = 0
    /\ e_done = <<>>
    /\ e_results = NoEntryResults

\* orchestrate_accounts up to the await of gather: the semaphore and one
\* task per account, none of them started yet; the other components do not
\* run
InitOrch ==
    /\ r_max_attempts = 0
    /\ r_permanent_errors = {}
    /\ r_attempt = 0
    /\ r_delay = 0
    /\ r_pc = "idle"
    /\ r_log = <<>>
    /\ r_sleeps = <<>>
    /\ r_result = NoOutcome
    /\ wf_op = "none"
    /\ wf_username = "none"
    /\ wf_order_number = "none"
    /\ wf_dry_run = FALSE
    /\ wf_skip_history = FALSE
    /\ wf_browser_context = FALSE
    /\ wf_page = FALSE
    /\ wf_pc = "idle"
    /\ wf_idx = 0
    /\ wf_attempt = 0
    /\ wf_calls = <<>>
    /\ wf_ops = 0
    /\ report = NewReport
    /\ o_max_concurrency \in
         {MaxConcurrency(TRUE, 0), MaxConcurrency(FALSE, 1),
          MaxConcurrency(FALSE, 2), MaxConcurrency(FALSE, 50)}
    /\ o_pc = [i \in Accounts |-> "created"]
    /\ o_context = [i \in Accounts |-> "none"]
    /\ o_pending = [i \in Accounts |-> NoTaskOutcome]
    /\ o_task = [i \in Accounts |-> NoTaskOutcome]
    /\ o_value = Limit(o_max_concurrency)
    /\ o_waiters = <<>>
    /\ o_finished = <<>>
    /\ o_results = <<>>
    /\ o_main = "gather"
    /\ o_passed = [i \in Accounts |-> 0]
    /\ o_closes = [i \in Accounts |-> 0]
    /\ p_max_concurrency = MaxConcurrency(TRUE, 0)
    /\ p_pc = <<>>
    /\ p_value = 0
    /\ p_waiters = <<>>
    /\ p_admitted = <<>>
    /\ f_dry_run = FALSE
    /\ f_pc = "idle"
    /\ f_attempt = 0
    /\ f_obs = NoObservation
    /\ f_log = <<>>
    /\ f_result = NoFollowUpOutcome
    /\ c_text = ""
    /\ c_results = NoResults
    /\ s_step = "none"
    /\ s_dry_run = FALSE
    /\ s_session_file = FALSE
    /\ s_storage_state_path = FALSE
    /\ s_pc = "idle"
    /\ s_attempt = 0
    /\ s_obs = NoStepObs
    /\ s_log = <<>>
    /\ s_outcome = NoStepOutcome
    /\ s_saves = 0
    /\ s_result = NoStepOutcome
    /\ s_steps = <<>>
    /\ h_op = "none"
    /\ h_timeout = NoTimeout
    /\ h_pc = "idle"
    /\ h_calls = <<>>
    /\ h_dismissals = 0
    /\ h_result = "none"
    /\ a_account = NoAccount
    /\ a_notify = FALSE
    /\ a_pc = "idle"
    /\ a_page = "unbound"
    /\ a_pending = NoAccountOutcome
    /\ a_result = NoAccountOutcome
    /\ a_messages = 0
    /\ b_pc = <<>>
    /\ b_lock = FALSE
    /\ e_entry = "none"
    /\ e_file_accounts = 0
    /\ e_env = FALSE
    /\ e_accounts = 0
    /\ e_pc = "idle"
    /\ e_browsers = 0
    /\ e_contexts = 0
    /\ e_done = <<>>
    /\ e_results = NoEntryResults

\* the semaphore of orchestrate_accounts and one created task per account;
\* the other components do not run
InitPool ==
    /\ r_max_attempts = 0
    /\ r_permanent_errors = {}
    /\ r_attempt = 0
    /\ r_delay = 0
    /\ r_pc = "idle"
    /\ r_log = <<>>
    /\ r_sleeps = <<>>
    /\ r_result = NoOutcome
    /\ wf_op = "none"
    /\ wf_username = "none"
    /\ wf_order_number = "none"
    /\ wf_dry_run = FALSE
    /\ wf_skip_history = FALSE
    /\ wf_browser_context = FALSE
    /\ wf_page = FALSE
    /\ wf_pc = "idle"
    /\ wf_idx = 0
    /\ wf_attempt = 0
    /\ wf_calls = <<>>
    /\ wf_ops = 0
    /\ report = NewReport
    /\ o_max_concurrency = MaxConcurrency(TRUE, 0)
    /\ o_pc = <<>>
    /\ o_context = <<>>
    /\ o_pending = <<>>
    /\ o_task = <<>>
    /\ o_value = 0
    /\ o_waiters = <<>>
    /\ o_finished = <<>>
    /\ o_results = <<>>
    /\ o_main = "idle"
    /\ o_passed = <<>>
    /\ o_closes = <<>>
    /\ p_max_concurrency \in
         {MaxConcurrency(TRUE, 0), MaxConcurrency(FALSE, 0 - 3),
          MaxConcurrency(FALSE, 0), MaxConcurrency(FALSE, 1),
          MaxConcurrency(FALSE, 2), MaxConcurrency(FALSE, 50)}
    /\ p_pc = [i \in PoolAccounts |-> "created"]
    /\ p_value = Limit(p_max_concurrency)
    /\ p_waiters = <<>>
    /\ p_admitted = <<>>
    /\ f_dry_run = FALSE
    /\ f_pc = "idle"
    /\ f_attempt = 0
    /\ f_obs = NoObservation
    /\ f_log = <<>>
    /\ f_result = NoFollowUpOutcome
    /\ c_text = ""
    /\ c_results = NoResults
    /\ s_step = "none"
    /\ s_dry_run = FALSE
    /\ s_session_file = FALSE
    /\ s_storage_state_path = FALSE
    /\ s_pc = "idle"
    /\ s_attempt = 0
    /\ s_obs = NoStepObs
    /\ s_log = <<>>
    /\ s_outcome = NoStepOutcome
    /\ s_saves = 0
    /\ s_result = NoStepOutcome
    /\ s_steps = <<>>
    /\ h_op = "none"
    /\ h_timeout = NoTimeout
    /\ h_pc = "idle"
    /\ h_calls = <<>>
    /\ h_dismissals = 0
    /\ h_result = "none"
    /\ a_account = NoAccount
    /\ a_notify = FALSE
    /\ a_pc = "idle"
    /\ a_page = "unbound"
    /\ a_pending = NoAccountOutcome
    /\ a_result = NoAccountOutcome
    /\ a_messages = 0
    /\ b_pc = <<>>
    /\ b_lock = FALSE
    /\ e_entry = "none"
    /\ e_file_accounts = 0
    /\ e_env = FALSE
    /\ e_accounts = 0
    /\ e_pc = "idle"
    /\ e_browsers = 0
    /\ e_contexts = 0
    /\ e_done = <<>>
    /\ e_results = NoEntryResults

\* the retry wrapper of _step_execute_follow_up is entered by the workflow
\* loop; the other components do not run
InitFollowUp ==
    /\ r_max_attempts = 0
    /\ r_permanent_errors = {}
    /\ r_attempt = 0
    /\ r_delay = 0
    /\ r_pc = "idle"
    /\ r_log = <<>>
    /\ r_sleeps = <<>>
    /\ r_result = NoOutcome
    /\ wf_op = "none"
    /\ wf_username = "none"
    /\ wf_order_number = "none"
    /\ wf_dry_run = FALSE
    /\ wf_skip_history = FALSE
    /\ wf_browser_context = FALSE
    /\ wf_page = FALSE
    /\ wf_pc = "idle"
    /\ wf_idx = 0
    /\ wf_attempt = 0
    /\ wf_calls = <<>>
    /\ wf_ops = 0
    /\ report = NewReport
    /\ o_max_concurrency = MaxConcurrency(TRUE, 0)
    /\ o_pc = <<>>
    /\ o_context = <<>>
    /\ o_pending = <<>>
    /\ o_task = <<>>
    /\ o_value = 0
    /\ o_waiters = <<>>
    /\ o_finished = <<>>
    /\ o_results = <<>>
    /\ o_main = "idle"
    /\ o_passed = <<>>
    /\ o_closes = <<>>
    /\ p_max_concurrency = MaxConcurrency(TRUE, 0)
    /\ p_pc = <<>>
    /\ p_value = 0
    /\ p_waiters = <<>>
    /\ p_admitted = <<>>
    /\ f_dry_run \in BOOLEAN
    /\ f_pc = "call"
    /\ f_attempt = 1
    /\ f_obs = NoObservation
    /\ f_log = <<>>
    /\ f_result = NoFollowUpOutcome
    /\ c_text = ""
    /\ c_results = NoResults
    /\ s_step = "none"
    /\ s_dry_run = FALSE
    /\ s_session_file = FALSE
    /\ s_storage_state_path = FALSE
    /\ s_pc = "idle"
    /\ s_attempt = 0
    /\ s_obs = NoStepObs
    /\ s_log = <<>>
    /\ s_outcome = NoStepOutcome
    /\ s_saves = 0
    /\ s_result = NoStepOutcome
    /\ s_steps = <<>>
    /\ h_op = "none"
    /\ h_timeout = NoTimeout
    /\ h_pc = "idle"
    /\ h_calls = <<>>
    /\ h_dismissals = 0
    /\ h_result = "none"
    /\ a_account = NoAccount
    /\ a_notify = FALSE
    /\ a_pc = "idle"
    /\ a_page = "unbound"
    /\ a_pending = NoAccountOutcome
    /\ a_result = NoAccountOutcome
    /\ a_messages = 0
    /\ b_pc = <<>>
    /\ b_lock = FALSE
    /\ e_entry = "none"
    /\ e_file_accounts = 0
    /\ e_env = FALSE
    /\ e_accounts = 0
    /\ e_pc = "idle"
    /\ e_browsers = 0
    /\ e_contexts = 0
    /\ e_done = <<>>
    /\ e_results = NoEntryResults

\* an error text that no operation has been applied to yet; the other
\* components do not run
InitClassify ==
    /\ r_max_attempts = 0
    /\ r_permanent_errors = {}
    /\ r_attempt = 0
    /\ r_delay = 0
    /\ r_pc = "idle"
    /\ r_log = <<>>
    /\ r_sleeps = <<>>
    /\ r_result = NoOutcome
    /\ wf_op = "none"
    /\ wf_username = "none"
    /\ wf_order_number = "none"
    /\ wf_dry_run = FALSE
    /\ wf_skip_history = FALSE
    /\ wf_browser_context = FALSE
    /\ wf_page = FALSE
    /\ wf_pc = "idle"
    /\ wf_idx = 0
    /\ wf_attempt = 0
    /\ wf_calls = <<>>
    /\ wf_ops = 0
    /\ report = NewReport
    /\ o_max_concurrency = MaxConcurrency(TRUE, 0)
    /\ o_pc = <<>>
    /\ o_context = <<>>
    /\ o_pending = <<>>
    /\ o_task = <<>>
    /\ o_value = 0
    /\ o_waiters = <<>>
    /\ o_finished = <<>>
    /\ o_results = <<>>
    /\ o_main = "idle"
    /\ o_passed = <<>>
    /\ o_closes = <<>>
    /\ p_max_concurrency = MaxConcurrency(TRUE, 0)
    /\ p_pc = <<>>
    /\ p_value = 0
    /\ p_waiters = <<>>
    /\ p_admitted = <<>>
    /\ f_dry_run = FALSE
    /\ f_pc = "idle"
    /\ f_attempt = 0
    /\ f_obs = NoObservation
    /\ f_log = <<>>
    /\ f_result = NoFollowUpOutcome
    /\ c_text \in ClassifierTexts
    /\ c_results = NoResults
    /\ s_step = "none"
    /\ s_dry_run = FALSE
    /\ s_session_file = FALSE
    /\ s_storage_state_path = FALSE
    /\ s_pc = "idle"
    /\ s_attempt = 0
    /\ s_obs = NoStepObs
    /\ s_log = <<>>
    /\ s_outcome = NoStepOutcome
    /\ s_saves = 0
    /\ s_result = NoStepOutcome
    /\ s_steps = <<>>
    /\ h_op = "none"
    /\ h_timeout = NoTimeout
    /\ h_pc = "idle"
    /\ h_calls = <<>>
    /\ h_dismissals = 0
    /\ h_result = "none"
    /\ a_account = NoAccount
    /\ a_notify = FALSE
    /\ a_pc = "idle"
    /\ a_page = "unbound"
    /\ a_pending = NoAccountOutcome
    /\ a_result = NoAccountOutcome
    /\ a_messages = 0
    /\ b_pc = <<>>
    /\ b_lock = FALSE
    /\ e_entry = "none"
    /\ e_file_accounts = 0
    /\ e_env = FALSE
    /\ e_accounts = 0
    /\ e_pc = "idle"
    /\ e_browsers = 0
    /\ e_contexts = 0
    /\ e_done = <<>>
    /\ e_results = NoEntryResults

\* the entry operation is about to call s_step: the steps before it
\* succeeded; only execute_login passes dry_run = True to a step function;
\* the other components do not run
InitSteps ==
    /\ r_max_attempts = 0
    /\ r_permanent_errors = {}
    /\ r_attempt = 0
    /\ r_delay = 0
    /\ r_pc = "idle"
    /\ r_log = <<>>
    /\ r_sleeps = <<>>
    /\ r_result = NoOutcome
    /\ wf_op = "none"
    /\ wf_username = "none"
    /\ wf_order_number = "none"
    /\ wf_dry_run = FALSE
    /\ wf_skip_history = FALSE
    /\ wf_browser_context = FALSE
    /\ wf_page = FALSE
    /\ wf_pc = "idle"
    /\ wf_idx = 0
    /\ wf_attempt = 0
    /\ wf_calls = <<>>
    /\ wf_ops = 0
    /\ report = NewReport
    /\ o_max_concurrency = MaxConcurrency(TRUE, 0)
    /\ o_pc = <<>>
    /\ o_context = <<>>
    /\ o_pending = <<>>
    /\ o_task = <<>>
    /\ o_value = 0
    /\ o_waiters = <<>>
    /\ o_finished = <<>>
    /\ o_results = <<>>
    /\ o_main = "idle"
    /\ o_passed = <<>>
    /\ o_closes = <<>>
    /\ p_max_concurrency = MaxConcurrency(TRUE, 0)
    /\ p_pc = <<>>
    /\ p_value = 0
    /\ p_waiters = <<>>
    /\ p_admitted = <<>>
    /\ f_dry_run = FALSE
    /\ f_pc = "idle"
    /\ f_attempt = 0
    /\ f_obs = NoObservation
    /\ f_log = <<>>
    /\ f_result = NoFollowUpOutcome
    /\ c_text = ""
    /\ c_results = NoResults
    /\ s_step \in StepFunctions
    /\ s_dry_run \in (IF s_step = "login" THEN BOOLEAN ELSE {FALSE})
    /\ s_storage_state_path \in
          (IF s_step = "login" /\ ~s_dry_run THEN BOOLEAN ELSE {FALSE})
    /\ s_session_file \in
          (IF s_storage_state_path THEN BOOLEAN ELSE {FALSE})
    /\ s_pc = "call"
    /\ s_attempt = 1
    /\ s_obs = NoStepObs
    /\ s_log = <<>>
    /\ s_outcome = NoStepOutcome
    /\ s_saves = 0
    /\ s_result = NoStepOutcome
    /\ s_steps = PriorSteps(s_step, s_dry_run)
    /\ h_op = "none"
    /\ h_timeout = NoTimeout
    /\ h_pc = "idle"
    /\ h_calls = <<>>
    /\ h_dismissals = 0
    /\ h_result = "none"
    /\ a_account = NoAccount
    /\ a_notify = FALSE
    /\ a_pc = "idle"
    /\ a_page = "unbound"
    /\ a_pending = NoAccountOutcome
    /\ a_result = NoAccountOutcome
    /\ a_messages = 0
    /\ b_pc = <<>>
    /\ b_lock = FALSE
    /\ e_entry = "none"
    /\ e_file_accounts = 0
    /\ e_env = FALSE
    /\ e_accounts = 0
    /\ e_pc = "idle"
    /\ e_browsers = 0
    /\ e_contexts = 0
    /\ e_done = <<>>
    /\ e_results = NoEntryResults

\* a helper is called; the other components do not run
InitHelpers ==
    /\ r_max_attempts = 0
    /\ r_permanent_errors = {}
    /\ r_attempt = 0
    /\ r_delay = 0
    /\ r_pc = "idle"
    /\ r_log = <<>>
    /\ r_sleeps = <<>>
    /\ r_result = NoOutcome
    /\ wf_op = "none"
    /\ wf_username = "none"
    /\ wf_order_number = "none"
    /\ wf_dry_run = FALSE
    /\ wf_skip_history = FALSE
    /\ wf_browser_context = FALSE
    /\ wf_page = FALSE
    /\ wf_pc = "idle"
    /\ wf_idx = 0
    /\ wf_attempt = 0
    /\ wf_calls = <<>>
    /\ wf_ops = 0
    /\ report = NewReport
    /\ o_max_concurrency = MaxConcurrency(TRUE, 0)
    /\ o_pc = <<>>
    /\ o_context = <<>>
    /\ o_pending = <<>>
    /\ o_task = <<>>
    /\ o_value = 0
    /\ o_waiters = <<>>
    /\ o_finished = <<>>
    /\ o_results = <<>>
    /\ o_main = "idle"
    /\ o_passed = <<>>
    /\ o_closes = <<>>
    /\ p_max_concurrency = MaxConcurrency(TRUE, 0)
    /\ p_pc = <<>>
    /\ p_value = 0
    /\ p_waiters = <<>>
    /\ p_admitted = <<>>
    /\ f_dry_run = FALSE
    /\ f_pc = "idle"
    /\ f_attempt = 0
    /\ f_obs = NoObservation
    /\ f_log = <<>>
    /\ f_result = NoFollowUpOutcome
    /\ c_text = ""
    /\ c_results = NoResults
    /\ s_step = "none"
    /\ s_dry_run = FALSE
    /\ s_session_file = FALSE
    /\ s_storage_state_path = FALSE
    /\ s_pc = "idle"
    /\ s_attempt = 0
    /\ s_obs = NoStepObs
    /\ s_log = <<>>
    /\ s_outcome = NoStepOutcome
    /\ s_saves = 0
    /\ s_result = NoStepOutcome
    /\ s_steps = <<>>
    /\ h_op \in Helpers
    /\ h_timeout \in
          (IF h_op = "handle_common_popups" THEN {NoTimeout}
           ELSE TimeoutArgs)
    /\ h_pc = "entry"
    /\ h_calls = <<>>
    /\ h_dismissals = 0
    /\ h_result = "none"
    /\ a_account = NoAccount
    /\ a_notify = FALSE
    /\ a_pc = "idle"
    /\ a_page = "unbound"
    /\ a_pending = NoAccountOutcome
    /\ a_result = NoAccountOutcome
    /\ a_messages = 0
    /\ b_pc = <<>>
    /\ b_lock = FALSE
    /\ e_entry = "none"
    /\ e_file_accounts = 0
    /\ e_env = FALSE
    /\ e_accounts = 0
    /\ e_pc = "idle"
    /\ e_browsers = 0
    /\ e_contexts = 0
    /\ e_done = <<>>
    /\ e_results = NoEntryResults

\* run_copy_trade_for_account is called for one account, with or without a
\* Telegram client to notify
InitAccount ==
    /\ r_max_attempts = 0
    /\ r_permanent_errors = {}
    /\ r_attempt = 0
    /\ r_delay = 0
    /\ r_pc = "idle"
    /\ r_log = <<>>
    /\ r_sleeps = <<>>
    /\ r_result = NoOutcome
    /\ wf_op = "none"
    /\ wf_username = "none"
    /\ wf_order_number = "none"
    /\ wf_dry_run = FALSE
    /\ wf_skip_history = FALSE
    /\ wf_browser_context = FALSE
    /\ wf_page = FALSE
    /\ wf_pc = "idle"
    /\ wf_idx = 0
    /\ wf_attempt = 0
    /\ wf_calls = <<>>
    /\ wf_ops = 0
    /\ report = NewReport
    /\ o_max_concurrency = MaxConcurrency(TRUE, 0)
    /\ o_pc = <<>>
    /\ o_context = <<>>
    /\ o_pending = <<>>
    /\ o_task = <<>>
    /\ o_value = 0
    /\ o_waiters = <<>>
    /\ o_finished = <<>>
    /\ o_results = <<>>
    /\ o_main = "idle"
    /\ o_passed = <<>>
    /\ o_closes = <<>>
    /\ p_max_concurrency = MaxConcurrency(TRUE, 0)
    /\ p_pc = <<>>
    /\ p_value = 0
    /\ p_waiters = <<>>
    /\ p_admitted = <<>>
    /\ f_dry_run = FALSE
    /\ f_pc = "idle"
    /\ f_attempt = 0
    /\ f_obs = NoObservation
    /\ f_log = <<>>
    /\ f_result = NoFollowUpOutcome
    /\ c_text = ""
    /\ c_results = NoResults
    /\ s_step = "none"
    /\ s_dry_run = FALSE
    /\ s_session_file = FALSE
    /\ s_storage_state_path = FALSE
    /\ s_pc = "idle"
    /\ s_attempt = 0
    /\ s_obs = NoStepObs
    /\ s_log = <<>>
    /\ s_outcome = NoStepOutcome
    /\ s_saves = 0
    /\ s_result = NoStepOutcome
    /\ s_steps = <<>>
    /\ h_op = "none"
    /\ h_timeout = NoTimeout
    /\ h_pc = "idle"
    /\ h_calls = <<>>
    /\ h_dismissals = 0
    /\ h_result = "none"
    /\ a_account \in AccountsToRun
    /\ a_notify \in BOOLEAN
    /\ a_pc = "new_page"
    /\ a_page = "unbound"
    /\ a_pending = NoAccountOutcome
    /\ a_result = NoAccountOutcome
    /\ a_messages = 0
    /\ b_pc = <<>>
    /\ b_lock = FALSE
    /\ e_entry = "none"
    /\ e_file_accounts = 0
    /\ e_env = FALSE
    /\ e_accounts = 0
    /\ e_pc = "idle"
    /\ e_browsers = 0
    /\ e_contexts = 0
    /\ e_done = <<>>
    /\ e_results = NoEntryResults

\* the processes are started; no lock file is left from an earlier run
InitBot ==
    /\ r_max_attempts = 0
    /\ r_permanent_errors = {}
    /\ r_attempt = 0
    /\ r_delay = 0
    /\ r_pc = "idle"
    /\ r_log = <<>>
    /\ r_sleeps = <<>>
    /\ r_result = NoOutcome
    /\ wf_op = "none"
    /\ wf_username = "none"
    /\ wf_order_number = "none"
    /\ wf_dry_run = FALSE
    /\ wf_skip_history = FALSE
    /\ wf_browser_context = FALSE
    /\ wf_page = FALSE
    /\ wf_pc = "idle"
    /\ wf_idx = 0
    /\ wf_attempt = 0
    /\ wf_calls = <<>>
    /\ wf_ops = 0
    /\ report = NewReport
    /\ o_max_concurrency = MaxConcurrency(TRUE, 0)
    /\ o_pc = <<>>
    /\ o_context = <<>>
    /\ o_pending = <<>>
    /\ o_task = <<>>
    /\ o_value = 0
    /\ o_waiters = <<>>
    /\ o_finished = <<>>
    /\ o_results = <<>>
    /\ o_main = "idle"
    /\ o_passed = <<>>
    /\ o_closes = <<>>
    /\ p_max_concurrency = MaxConcurrency(TRUE, 0)
    /\ p_pc = <<>>
    /\ p_value = 0
    /\ p_waiters = <<>>
    /\ p_admitted = <<>>
    /\ f_dry_run = FALSE
    /\ f_pc = "idle"
    /\ f_attempt = 0
    /\ f_obs = NoObservation
    /\ f_log = <<>>
    /\ f_result = NoFollowUpOutcome
    /\ c_text = ""
    /\ c_results = NoResults
    /\ s_step = "none"
    /\ s_dry_run = FALSE
    /\ s_session_file = FALSE
    /\ s_storage_state_path = FALSE
    /\ s_pc = "idle"
    /\ s_attempt = 0
    /\ s_obs = NoStepObs
    /\ s_log = <<>>
    /\ s_outcome = NoStepOutcome
    /\ s_saves = 0
    /\ s_result = NoStepOutcome
    /\ s_steps = <<>>
    /\ h_op = "none"
    /\ h_timeout = NoTimeout
    /\ h_pc = "idle"
    /\ h_calls = <<>>
    /\ h_dismissals = 0
    /\ h_result = "none"
    /\ a_account = NoAccount
    /\ a_notify = FALSE
    /\ a_pc = "idle"
    /\ a_page = "unbound"
    /\ a_pending = NoAccountOutcome
    /\ a_result = NoAccountOutcome
    /\ a_messages = 0
    /\ b_pc = [i \in Bots |-> "start"]
    /\ b_lock = FALSE
    /\ e_entry = "none"
    /\ e_file_accounts = 0
    /\ e_env = FALSE
    /\ e_accounts = 0
    /\ e_pc = "idle"
    /\ e_browsers = 0
    /\ e_contexts = 0
    /\ e_done = <<>>
    /\ e_results = NoEntryResults

\* an entry point is invoked in some configuration of accounts;
\* orchestrate_accounts gets its list from the caller
InitEntry ==
    /\ r_max_attempts = 0
    /\ r_permanent_errors = {}
    /\ r_attempt = 0
    /\ r_delay = 0
    /\ r_pc = "idle"
    /\ r_log = <<>>
    /\ r_sleeps = <<>>
    /\ r_result = NoOutcome
    /\ wf_op = "none"
    /\ wf_username = "none"
    /\ wf_order_number = "none"
    /\ wf_dry_run = FALSE
    /\ wf_skip_history = FALSE
    /\ wf_browser_context = FALSE
    /\ wf_page = FALSE
    /\ wf_pc = "idle"
    /\ wf_idx = 0
    /\ wf_attempt = 0
    /\ wf_calls = <<>>
    /\ wf_ops = 0
    /\ report = NewReport
    /\ o_max_concurrency = MaxConcurrency(TRUE, 0)
    /\ o_pc = <<>>
    /\ o_context = <<>>
    /\ o_pending = <<>>
    /\ o_task = <<>>
    /\ o_value = 0
    /\ o_waiters = <<>>
    /\ o_finished = <<>>
    /\ o_results = <<>>
    /\ o_main = "idle"
    /\ o_passed = <<>>
    /\ o_closes = <<>>
    /\ p_max_concurrency = MaxConcurrency(TRUE, 0)
    /\ p_pc = <<>>
    /\ p_value = 0
    /\ p_waiters = <<>>
    /\ p_admitted = <<>>
    /\ f_dry_run = FALSE
    /\ f_pc = "idle"
    /\ f_attempt = 0
    /\ f_obs = NoObservation
    /\ f_log = <<>>
    /\ f_result = NoFollowUpOutcome
    /\ c_text = ""
    /\ c_results = NoResults
    /\ s_step = "none"
    /\ s_dry_run = FALSE
    /\ s_session_file = FALSE
    /\ s_storage_state_path = FALSE
    /\ s_pc = "idle"
    /\ s_attempt = 0
    /\ s_obs = NoStepObs
    /\ s_log = <<>>
    /\ s_outcome = NoStepOutcome
    /\ s_saves = 0
    /\ s_result = NoStepOutcome
    /\ s_steps = <<>>
    /\ h_op = "none"
    /\ h_timeout = NoTimeout
    /\ h_pc = "idle"
    /\ h_calls = <<>>
    /\ h_dismissals = 0
    /\ h_result = "none"
    /\ a_account = NoAccount
    /\ a_notify = FALSE
    /\ a_pc = "idle"
    /\ a_page = "unbound"
    /\ a_pending = NoAccountOutcome
    /\ a_result = NoAccountOutcome
    /\ a_messages = 0
    /\ b_pc = <<>>
    /\ b_lock = FALSE
    /\ e_entry \in Entries
    /\ e_file_accounts \in
          (IF e_entry = "orchestrate_accounts" THEN {0} ELSE 0..MaxFileAccounts)
    /\ e_env \in (IF e_entry = "orchestrate_accounts" THEN {FALSE} ELSE BOOLEAN)
    /\ e_accounts \in
          (IF e_entry = "orchestrate_accounts" THEN 0..MaxFileAccounts ELSE {0})
    /\ e_pc = (IF e_entry = "orchestrate_accounts" THEN "workers"
               ELSE IF e_entry = "cli_copy_trade" THEN "confirm" ELSE "load")
    /\ e_browsers = 0
    /\ e_contexts = 0
    /\ e_done = <<>>
    /\ e_results = NoEntryResults

SpecAccount == InitAccount /\ [][AccountNext]_vars

SpecBot == InitBot /\ [][BotNext]_vars

SpecEntry == InitEntry /\ [][EntryNext]_vars

SpecRetry == InitRetry /\ [][RetryNext]_vars

SpecWorkflow == InitWorkflow /\ [][WorkflowNext]_vars

SpecOrch == InitOrch /\ [][OrchNext]_vars

SpecPool == InitPool /\ [][PoolNext]_vars

SpecFollowUp == InitFollowUp /\ [][FollowUpNext]_vars

SpecClassify == InitClassify /\ [][ClassifyNext]_vars

SpecSteps == InitSteps /\ [][StepsNext]_vars

SpecHelpers == InitHelpers /\ [][HelpersNext]_vars

\* orchestrate_accounts on a running event loop: a task that can take its
\* next step (start, take a freed slot, get its context, have its step
\* operation finish, close its context) eventually takes it, and gather
\* returns once every task is done
SpecOrchFair ==
    /\ InitOrch
    /\ [][OrchNext]_vars
    /\ \A i \in Accounts :
          /\ WF_vars(WorkerStart(i))
          /\ WF_vars(WorkerWake(i))
          /\ WF_vars(NewContext(i))
          /\ WF_vars(RunForAccount(i))
          /\ WF_vars(CloseContext(i))
    /\ WF_vars(OrchReturn)

----------------------------------------------------------------------------
(* Claims about the workflow engine (SpecWorkflow) *)

AllStepsSucceeded(rep) ==
    \A i \in 1..Len(rep.steps) : rep.steps[i].success

LiveRun == wf_op # "none" /\ ~wf_dry_run

LiveCopyTrade == wf_op = "execute_copy_trade" /\ ~wf_dry_run

\* the number of invocations of the step function invoked in wf_calls[i],
\* up to and including that invocation
AttemptsUpTo(i) ==
    Cardinality({j \in 1..i : wf_calls[j].step = wf_calls[i].step})

\* the position of a step name in StepOrder (0 when it is none of them)
StepIndex(name) ==
    IF \E k \in 1..Len(StepOrder) : StepOrder[k] = name
    THEN CHOOSE k \in 1..Len(StepOrder) : StepOrder[k] = name
    ELSE 0

\* C1 as stated: in every returned report, success is true if and only if
\* every entry of steps has success = true.
C1_SuccessIffAllSteps ==
    wf_pc = "returned" => (report.success <=> AllStepsSucceeded(report))

\* C1 as amended: in every returned report, success is true if and only if
\* every entry of steps has success = true and the report carries no
\* report-level error (an exception ended the workflow: the failing step is
\* then not recorded in steps).
C1_SuccessIffAllStepsAndNoError ==
    wf_pc = "returned" =>
        (report.success <=>
            (AllStepsSucceeded(report) /\ report.error = "none"))

\* a returned live report whose recorded steps all succeeded, that failed
\* through an exception of a later step
C1_Witness ==
    /\ wf_pc = "returned"
    /\ LiveCopyTrade
    /\ ~report.success
    /\ report.error = "Unexpected error"
    /\ Len(report.steps) = 2
    /\ AllStepsSucceeded(report)
    /\ wf_calls[Len(wf_calls)].outcome = "TemporaryError"

\* C2: in a live execute_copy_trade, report.steps is always a prefix of the
\* five steps in order; a failed step is the last entry and then
\* report.success is false; the step functions are invoked in order, each
\* only after the previous one returned a successful result, and none after
\* a step returned a failed result or raised out of its retry wrapper.
C2_StepsArePrefixFailFast ==
    LiveCopyTrade =>
        /\ Len(report.steps) <= Len(StepOrder)
        /\ \A i \in 1..Len(report.steps) :
            /\ report.steps[i].step = StepOrder[i]
            /\ ~report.steps[i].success =>
                  (i = Len(report.steps) /\ ~report.success)
        /\ wf_calls # <<>> => wf_calls[1].step = StepOrder[1]
        /\ \A i \in 1..(Len(wf_calls) - 1) :
            \/ /\ wf_calls[i].outcome = "ok"
               /\ StepIndex(wf_calls[i + 1].step) = StepIndex(wf_calls[i].step) + 1
               /\ Len(report.steps) >= StepIndex(wf_calls[i].step)
            \/ /\ wf_calls[i].outcome = "TemporaryError"
               /\ wf_calls[i + 1].step = wf_calls[i].step
        /\ wf_pc = "step" =>
              /\ Len(report.steps) = wf_idx - 1
              /\ AllStepsSucceeded(report)

\* a live copy trade stopped by a failed third step
C2_Witness ==
    /\ LiveCopyTrade
    /\ wf_pc = "returned"
    /\ Len(report.steps) = 3
    /\ ~report.steps[3].success
    /\ wf_calls[Len(wf_calls)].step = "navigate_to_copy_trading"

\* C3 as stated: for each of the five steps of a live workflow, a failure
\* classified Temporary makes the same step be attempted again, up to 3
\* attempts in total; once the budget is exhausted no later step is invoked
\* and report.success = false.
C3_TemporaryRetriedUpToThree ==
    LiveCopyTrade =>
        \A i \in 1..Len(wf_calls) :
            wf_calls[i].outcome = "TemporaryError" =>
                /\ AttemptsUpTo(i) <= 3
                /\ AttemptsUpTo(i) < 3 =>
                      \/ i < Len(wf_calls) /\ wf_calls[i + 1].step = wf_calls[i].step
                      \/ /\ i = Len(wf_calls)
                         /\ wf_pc \in {"sleep", "step"}
                         /\ StepOrder[wf_idx] = wf_calls[i].step
                /\ AttemptsUpTo(i) = 3 =>
                      i = Len(wf_calls) /\ wf_pc = "returned" /\ ~report.success

\* C4: in a live workflow, after an invocation of a step that returned a
\* failed result or raised PermanentError, there is no further invocation of
\* any step function, the workflow has returned, and report.success is false.
C4_PermanentAborts ==
    LiveRun =>
        \A i \in 1..Len(wf_calls) :
            wf_calls[i].outcome \in {"failed", "PermanentError"} =>
                /\ i = Len(wf_calls)
                /\ wf_pc = "returned"
                /\ ~report.success

\* a decorated step raised PermanentError on its first attempt
C4_Witness ==
    /\ LiveCopyTrade
    /\ wf_pc = "returned"
    /\ Len(wf_calls) = 2
    /\ wf_calls[2] = [step |-> "navigate_to_contract", outcome |-> "PermanentError"]
    /\ report.error = "Permanent error"

----------------------------------------------------------------------------
(* Claims about the retry wrapper (SpecRetry) *)

IsRaise(entry) == entry.kind = "exception"

\* the exception types a permanent_errors list of the model names are leaf
\* types: listed means the type is in the list
TypeListed(entry) == entry.exc.type \in r_permanent_errors

\* C5 as stated: an exception the Error Classifier classifies as Permanent
\* by its message is re-raised at once, whatever its type.
C5_ClassifiedPermanentNotRetried ==
    \A i \in 1..Len(r_log) :
        (IsRaise(r_log[i]) /\ is_permanent_error(r_log[i].exc.text)) =>
            (i = Len(r_log) /\ r_pc = "raised" /\ r_result = r_log[i])

\* C5 as amended: an exception of type PermanentError (the type
\* classify_and_raise gives to an error classified Permanent) is re-raised at
\* once, whatever its message; an exception of another type that is not
\* listed in permanent_errors is retried while attempts remain, also when its
\* message is one the Error Classifier classifies as Permanent.
C5_PermanentErrorTypeNotRetried ==
    \A i \in 1..Len(r_log) :
        IsRaise(r_log[i]) =>
            /\ r_log[i].exc.type = "PermanentError" =>
                  (i = Len(r_log) /\ r_pc = "raised" /\ r_result = r_log[i])
            /\ ( /\ r_log[i].exc.type # "PermanentError"
                 /\ ~TypeListed(r_log[i])
                 /\ i < r_max_attempts ) =>
                  (i < Len(r_log) \/ r_pc \in {"sleep", "call"})

\* classify_and_raise raised PermanentError for '401 unauthorized' on the
\* first of three attempts
C5_Witness ==
    /\ r_max_attempts = 3
    /\ r_pc = "raised"
    /\ Len(r_log) = 1
    /\ r_log[1].exc = [type |-> "PermanentError", text |-> "401 unauthorized"]

\* C6: with max_attempts = 3, an operation that raises a Temporary error on
\* every invocation is invoked exactly 3 times and the exception of the third
\* invocation propagates; an operation that raises PermanentError, or a type
\* listed in permanent_errors, on its first call is invoked exactly once and
\* that exception propagates.
C6_ThreeAttemptsOrOne ==
    /\ ( /\ r_max_attempts = 3
         /\ r_pc \in {"returned", "raised"}
         /\ \A i \in 1..Len(r_log) :
               /\ IsRaise(r_log[i])
               /\ r_log[i].exc.type # "PermanentError"
               /\ ~TypeListed(r_log[i]) )
       => ( /\ Len(r_log) = 3
            /\ r_pc = "raised"
            /\ r_result = r_log[3]
            /\ r_result.call = 3 )
    /\ ( /\ r_max_attempts = 3
         /\ r_log # <<>>
         /\ IsRaise(r_log[1])
         /\ (r_log[1].exc.type = "PermanentError" \/ TypeListed(r_log[1])) )
       => ( /\ Len(r_log) = 1
            /\ r_pc = "raised"
            /\ r_result = r_log[1] )

\* three invocations that all raised TemporaryError, the third one propagated
C6_Witness ==
    /\ r_max_attempts = 3
    /\ r_permanent_errors = {}
    /\ r_pc = "raised"
    /\ Len(r_log) = 3
    /\ \A i \in 1..3 : r_log[i].exc.type = "TemporaryError"
    /\ r_result.call = 3

\* C7: the wrapper invokes the operation at most max_attempts times, never
\* again after an invocation that returned, and returns that invocation's
\* value: k - 1 failures followed by a success are exactly k invocations.
C7_AtMostMaxAttempts ==
    /\ Len(r_log) <= r_max_attempts
    /\ \A i \in 1..(Len(r_log) - 1) : IsRaise(r_log[i])
    /\ r_pc = "returned" =>
          /\ r_log # <<>>
          /\ r_log[Len(r_log)].kind = "value"
          /\ r_result = r_log[Len(r_log)]
          /\ r_result.call = Len(r_log)
    /\ (r_log # <<>> /\ r_log[Len(r_log)].kind = "value") => r_pc = "returned"

\* a TemporaryError, then a timeout, then the value of the third invocation
C7_Witness ==
    /\ r_max_attempts = 3
    /\ r_pc = "returned"
    /\ Len(r_log) = 3
    /\ r_log[1].exc.type = "TemporaryError"
    /\ r_log[2].exc.type = "PlaywrightTimeoutError"
    /\ r_result = Outcome("value", NoException, 3)

----------------------------------------------------------------------------
(* Claims about the orchestrator (SpecPool, SpecOrch) *)

InFlight == Cardinality({i \in PoolAccounts : p_pc[i] = "inflight"})

\* max(1, min(max_concurrency, 10)), with 0, None and negatives read as 1
ClaimedLimit ==
    IF p_max_concurrency.isNone \/ p_max_concurrency.n <= 0 THEN 1
    ELSE IF p_max_concurrency.n >= 10 THEN 10
    ELSE p_max_concurrency.n

\* C8: the number of accounts whose worker is in flight never exceeds
\* max(1, min(max_concurrency, 10)): one at a time with a limit of 1, at most
\* 10 with a limit of 50, and a limit of 0, None or a negative number is 1.
C8_InFlightAtMostLimit ==
    p_pc # <<>> => InFlight <= ClaimedLimit

\* a limit of 50: ten workers in flight and the eleventh waiting
C8_Witness ==
    /\ p_max_concurrency = MaxConcurrency(FALSE, 50)
    /\ InFlight = 10
    /\ p_waiters # <<>>

\* C9 as stated: the returned list has one entry per account, entry i is
\* account i's; an account whose step operation raised has that exception
\* at its index, every other account has the report its step operation
\* returned.
C9_ResultsInInputOrder ==
    o_main = "returned" =>
        /\ Len(o_results) = NumAccounts
        /\ \A i \in Accounts :
            /\ o_results[i].account = i
            /\ IF o_pending[i].kind = "exception"
               THEN o_results[i] = o_pending[i]
               ELSE o_results[i] = TaskOutcome("report", i, "run_for_account")

\* C10 as stated: when closing an account's context fails, the account's
\* entry in the result list is still the report its step operation returned.
C10_CloseFailureSwallowed ==
    o_main = "returned" =>
        \A i \in Accounts :
            (o_context[i] = "close_failed" /\ o_pending[i].kind = "report") =>
                o_results[i] = o_pending[i]

C12_ReturnsAfterAllWorkers ==
    /\ <>(o_main = "returned")
    /\ [](o_main = "returned" =>
            \A i \in Accounts : o_pc[i] = "done" /\ o_task[i].kind # "none")
    /\ \A i \in Accounts : (o_pc[i] = "waiting") ~> (o_pc[i] = "acquired")

\* limit 1: the step operation of account 1 raised and its worker gave the
\* slot back while account 2 is queued
C12_Witness ==
    /\ o_max_concurrency = MaxConcurrency(FALSE, 1)
    /\ o_task[1].kind = "exception"
    /\ o_task[1].source = "run_for_account"
    /\ o_pc[2] = "waiting"
    /\ o_value = 1

----------------------------------------------------------------------------
(* Claims about the follow-up step (SpecFollowUp) *)

\* the keywords the specification names for success and for failure
SpecSuccessKeywords == {"success", "suivi", "réussi", "followed"}

SpecFailureKeywords == {"not exist", "completed", "not found", "duplicate"}

\* the texts the latest invocation read from the modal and from the toast
ShownTexts == {t \in {f_obs.modal, f_obs.toast} : t \in PageTexts}

\* the outcome of the latest invocation of the step function
LastFollowUp == f_log[Len(f_log)]

\* a live invocation was made and none of its reads of the page crashed
FollowUpRead ==
    /\ ~f_dry_run
    /\ f_log # <<>>
    /\ f_obs.toast # "Error"
    /\ f_obs.content \notin {"Error", "TimeoutError"}

Mentions(error, word) == word \in (Occurs(error.msg) \cup Occurs(error.quoted))

\* C13 as stated: when the modal or the toast shows a text containing
\* 'duplicate' (and no shown text carries a success keyword), the step
\* returns a result with success = false whose error mentions 'duplicate';
\* when it shows 'suivi réussi' (and no shown text carries a failure
\* keyword), the step returns a result with success = true.
C13_DuplicateFailsSuiviSucceeds ==
    FollowUpRead =>
        /\ ( /\ \E t \in ShownTexts : "duplicate" \in Occurs(t)
             /\ \A t \in ShownTexts : Occurs(t) \cap SpecSuccessKeywords = {} )
           => /\ LastFollowUp.kind = "return"
              /\ ~LastFollowUp.success
              /\ Mentions(LastFollowUp.error, "duplicate")
        /\ ( /\ \E t \in ShownTexts : {"suivi", "réussi"} \subseteq Occurs(t)
             /\ \A t \in ShownTexts :
                  Occurs(t) \cap (SpecFailureKeywords \cup {"failed"}) = {} )
           => /\ LastFollowUp.kind = "return"
              /\ LastFollowUp.success

\* C14 as stated: when the modal or the toast appears and no shown text
\* contains a recognised success or failure keyword, the step returns a
\* result with success = false.
C14_UnrecognisedFailsClosed ==
    ( /\ FollowUpRead
      /\ ShownTexts # {}
      /\ \A t \in ShownTexts :
           Occurs(t) \cap (SpecSuccessKeywords \cup SpecFailureKeywords
                           \cup {"failed"}) = {} )
    => /\ LastFollowUp.kind = "return"
       /\ ~LastFollowUp.success

\* C15 as stated: when the modal or the toast shows a text containing
\* 'not exist', 'completed' or 'not found', whatever else the text contains,
\* the step returns a result with success = false and is not invoked again.
C15_NotExistCompletedNotFoundFail ==
    ( /\ FollowUpRead
      /\ \E t \in ShownTexts :
           Occurs(t) \cap {"not exist", "completed", "not found"} # {} )
    => /\ LastFollowUp.kind = "return"
       /\ ~LastFollowUp.success
       /\ f_pc = "returned"

----------------------------------------------------------------------------
(* Claims about the error classifier (SpecClassify) *)

\* the texts that tests/test_error_handling.py expects to be permanent
TestPermanentTexts ==
    {"invalid credentials", "incorrect password", "authentication failed",
     "access denied", "401 unauthorized", "account disabled",
     "account suspended"}

\* no pattern of PERMANENT_ERROR_PATTERNS occurs in the lower-cased text
NoPermanentPattern(text) ==
    \A i \in 1..Len(PERMANENT_ERROR_PATTERNS) :
        PERMANENT_ERROR_PATTERNS[i] \notin Occurs(text)

\* C17 as stated: for each of the texts 'invalid credentials', 'incorrect
\* password', 'authentication failed', 'access denied', '401 unauthorized',
\* 'account disabled', 'account suspended', classify_error returns
\* PermanentError, is_permanent_error is true, is_temporary_error is false
\* and classify_and_raise raises PermanentError.
C17_TestTextsArePermanent ==
    c_text \in TestPermanentTexts =>
        /\ c_results["classify_error"] \subseteq {"PermanentError"}
        /\ c_results["is_permanent_error"] \subseteq {TRUE}
        /\ c_results["is_temporary_error"] \subseteq {FALSE}
        /\ \A e \in c_results["classify_and_raise"] : e.type = "PermanentError"

\* C18: for every error text in which no permanent pattern occurs, whether
\* a temporary pattern occurs in it or none, classify_error returns
\* TemporaryError, is_temporary_error is true, is_permanent_error is false
\* and classify_and_raise raises TemporaryError; for every text,
\* classify_error returns PermanentError or TemporaryError and exactly one
\* of is_permanent_error, is_temporary_error is true.
C18_DefaultTemporary ==
    c_text \in ClassifierTexts =>
        /\ NoPermanentPattern(c_text) =>
              /\ c_results["classify_error"] \subseteq {"TemporaryError"}
              /\ c_results["is_temporary_error"] \subseteq {TRUE}
              /\ c_results["is_permanent_error"] \subseteq {FALSE}
              /\ \A e \in c_results["classify_and_raise"] :
                    e.type = "TemporaryError"
        /\ c_results["classify_error"] \subseteq
              {"PermanentError", "TemporaryError"}
        /\ \A p \in c_results["is_permanent_error"] :
              \A t \in c_results["is_temporary_error"] : p # t

\* a text with no pattern at all, every operation applied to it
C18_Witness ==
    /\ c_text = "flux capacitor overload"
    /\ c_results["classify_error"] = {"TemporaryError"}
    /\ c_results["is_temporary_error"] = {TRUE}
    /\ c_results["is_permanent_error"] = {FALSE}
    /\ \E e \in c_results["classify_and_raise"] : e.type = "TemporaryError"

----------------------------------------------------------------------------
(* Claims about the entry operations (SpecWorkflow), continued *)

\* the entry operation met an exception: at its start (no browser context
\* where one is needed, or new_page raised), or out of a step
MetException ==
    /\ wf_pc \in {"returned", "raised"}
    /\ \/ wf_calls = <<>> /\ (wf_op = "execute_login" \/ ~wf_dry_run)
       \/ /\ wf_calls # <<>>
          /\ wf_calls[Len(wf_calls)].outcome \in
                {"TemporaryError", "PermanentError"}

\* C19: execute_copy_trade and execute_login never end by raising; when a
\* step raised PermanentError, a Temporary error was left over after the
\* retries, new_page raised, or a browser context was needed and not given,
\* the call returns a report with success = false and an error text.
C19_NoExceptionEscapes ==
    wf_op # "none" =>
        /\ wf_pc # "raised"
        /\ MetException =>
              /\ wf_pc = "returned"
              /\ ~report.success
              /\ report.error # "none"

\* a live copy trade whose first step raised a Temporary error on each of
\* its three attempts: a failed report with an error text
C19_Witness ==
    /\ LiveCopyTrade
    /\ wf_pc = "returned"
    /\ Len(wf_calls) = 3
    /\ \A i \in 1..3 : wf_calls[i] = [step |-> "login", outcome |-> "TemporaryError"]
    /\ ~report.success
    /\ report.error = "Unexpected error"

\* C20: execute_copy_trade with dry_run = true invokes no step function and
\* makes no call on the browser context or the page, with or without a
\* browser context; it returns a report with success = true, no error, the
\* account name and the order number it was called with, and as steps the
\* five steps in order, followed by verify_history unless
\* skip_history_verification is set, each a simulated success: the same
\* list for every account.
C20_DryRunCopyTrade ==
    (wf_op = "execute_copy_trade" /\ wf_dry_run) =>
        /\ wf_pc \in {"entry", "returned"}
        /\ wf_calls = <<>>
        /\ wf_ops = 0
        /\ wf_pc = "returned" =>
              /\ report.success
              /\ report.error = "none"
              /\ report.order_number = wf_order_number
              /\ report.account_name = wf_username
              /\ Len(report.steps) = (IF wf_skip_history THEN 5 ELSE 6)
              /\ \A i \in 1..5 : report.steps[i].step = StepOrder[i]
              /\ ~wf_skip_history => report.steps[6].step = "verify_history"
              /\ \A i \in 1..Len(report.steps) :
                    report.steps[i].success /\ report.steps[i].simulated
              /\ report.steps[4].order_number = wf_order_number

\* a dry-run copy trade of ORDER123 on a workflow without browser context
\* or page has returned its six simulated steps
C20_Witness ==
    /\ wf_op = "execute_copy_trade"
    /\ wf_dry_run
    /\ ~wf_browser_context
    /\ ~wf_page
    /\ ~wf_skip_history
    /\ wf_order_number = "ORDER123"
    /\ wf_pc = "returned"
    /\ report.success
    /\ Len(report.steps) = 6

\* C21 as stated: execute_login with dry_run = true returns a report with
\* success = true and one simulated login step, and makes no call on the
\* browser context or the page, with or without a browser context.
C21_DryRunLoginNoBrowser ==
    (wf_op = "execute_login" /\ wf_dry_run) =>
        /\ wf_ops = 0
        /\ wf_pc = "returned" =>
              /\ report.success
              /\ report.steps = <<StepResult("login", TRUE, TRUE)>>

\* C22 as stated: a live execute_login that was given a browser context
\* returns a report whose steps hold exactly one entry, the login step.
C22_LiveLoginOneStep ==
    (wf_op = "execute_login" /\ ~wf_dry_run /\ wf_browser_context
        /\ wf_pc = "returned") =>
        /\ Len(report.steps) = 1
        /\ report.steps[1].step = "login"

\* C22 as amended: a live execute_login that was given a browser context
\* returns a report whose steps hold exactly one entry, the login step, when
\* the login step returned a result (a success, or the failed result of a
\* Permanent failure inside the step); when the step raised out of its retry
\* wrapper (Temporary errors until the budget was exhausted, or a
\* PermanentError) or new_page raised, steps is empty and the report carries
\* success = false and an error text.
C22_LiveLoginOneStepUnlessRaised ==
    (wf_op = "execute_login" /\ ~wf_dry_run /\ wf_browser_context
        /\ wf_pc = "returned") =>
        \/ /\ Len(report.steps) = 1
           /\ report.steps[1].step = "login"
           /\ report.error = "none"
           /\ wf_calls[Len(wf_calls)].outcome \in {"ok", "failed"}
           /\ report.success <=> wf_calls[Len(wf_calls)].outcome = "ok"
        \/ /\ report.steps = <<>>
           /\ ~report.success
           /\ report.error # "none"
           /\ wf_calls # <<>> =>
                wf_calls[Len(wf_calls)].outcome \in
                    {"TemporaryError", "PermanentError"}

\* a live login whose step raised a Temporary error on each of its three
\* attempts: a report without any step
C22_Witness ==
    /\ wf_op = "execute_login"
    /\ ~wf_dry_run
    /\ wf_browser_context
    /\ wf_pc = "returned"
    /\ Len(wf_calls) = 3
    /\ wf_calls[3].outcome = "TemporaryError"
    /\ report.steps = <<>>
    /\ report.error = "Unexpected error"

----------------------------------------------------------------------------
(* The step functions before the follow-up (SpecSteps) *)

\* an invocation of the live step function has ended and its frame is
\* still in the state
Invoked(step) ==
    /\ s_step = step
    /\ ~s_dry_run
    /\ s_pc \in {"sleep", "returned", "raised", "appended"}

\* the invocation ended in a Permanent failure that the step turned into a
\* failed result: no further attempt, and the report ends with that result
PermanentOutcome ==
    /\ s_outcome.kind = "return"
    /\ s_outcome.result.step = s_step
    /\ ~s_outcome.result.success
    /\ s_outcome.result.error # "none"
    /\ s_pc \in {"returned", "appended"}
    /\ s_result = s_outcome
    /\ s_pc = "appended" => s_steps[Len(s_steps)] = s_outcome.result

\* the invocation raised a Temporary error out of the step function
TemporaryOutcome ==
    /\ s_outcome.kind = "raise"
    /\ s_outcome.type = "TemporaryError"

\* the wrapper answers a Temporary error with a further attempt until the
\* third
RetriedUpToThree ==
    /\ TemporaryOutcome
    /\ s_attempt \in 1..3
    /\ s_attempt < 3 => s_pc = "sleep"
    /\ s_attempt = 3 => s_pc = "raised" /\ s_result = s_outcome

\* call is made by the invocation
Made(call) == Calls(s_outcome.trace, call) # {}

\* C23 as stated: in the login step, when the wait for the URL times out
\* on the login path after the credentials were submitted, a page content
\* with an error indicator gives a Permanent failure (failed login result,
\* no retry) and a content without one a Temporary failure that is retried.
C23_StillOnLoginByContent ==
    (/\ Invoked("login")
     /\ s_obs.wait_url = "TimeoutError"
     /\ "/login" \in Occurs(s_obs.url)) =>
        IF {"incorrect", "invalid", "error", "wrong password",
            "wrong credentials"} \cap Occurs(s_obs.content) # {}
        THEN PermanentOutcome
        ELSE RetriedUpToThree

\* C24: in the login step, when the username input does not become visible
\* on a login URL (and the page could be read): a content with 'invalid',
\* 'error' or 'incorrect' gives a failed login result, no further attempt
\* follows and the report ends with that result; any other content gives a
\* Temporary error, retried until the third attempt.
C24_UsernameHiddenByContent ==
    (/\ Invoked("login")
     /\ s_obs.visible = "hidden"
     /\ "/login" \in Occurs(s_obs.url)
     /\ s_obs.content \in Contents
     /\ s_obs.screenshot = "ok") =>
        IF {"invalid", "error", "incorrect"} \cap Occurs(s_obs.content) # {}
        THEN PermanentOutcome /\ Len(s_log) = s_attempt
        ELSE RetriedUpToThree

\* a second attempt of the login, after a Temporary first one, found the
\* login page showing an error: the report ends with the failed login step
C24_Witness ==
    /\ Invoked("login")
    /\ s_pc = "appended"
    /\ s_obs.visible = "hidden"
    /\ s_obs.content = "Invalid username or password"
    /\ Len(s_log) = 2
    /\ s_log[1].type = "TemporaryError"
    /\ ~s_steps[Len(s_steps)].success

\* C25: in the login step, when the session file exists and the marker is
\* found on the base URL, the step returns success with cached = true and
\* has neither gone to the login URL nor filled or submitted the form; when
\* there is no session file or the probe fails (marker hidden, navigation
\* error, timeout), the same invocation goes on with the credential login:
\* it navigates to the login URL and, the form being usable, fills and
\* submits it, and its result is never cached.
C25_CachedSessionOrFullLogin ==
    Invoked("login") =>
        /\ (s_obs.probe = "marker") =>
              /\ s_outcome.kind = "return"
              /\ s_outcome.result.success
              /\ s_outcome.result.cached
              /\ s_outcome.trace = <<"goto base", "popups", "wait marker">>
        /\ (s_obs.probe # "marker") =>
              /\ Made("goto login")
              /\ s_outcome.kind = "return" => ~s_outcome.result.cached
              /\ (s_obs.goto = "ok" /\ s_obs.visible = "visible"
                    /\ s_obs.form = "ok") =>
                    /\ Made("fill username")
                    /\ Made("fill password")
                    /\ Made("click submit")
        /\ Made("goto base") <=> s_obs.probe # Unread
        /\ Made("goto base") => s_session_file

\* the probe of an existing session file timed out and the same invocation
\* logged in with the credentials
C25_Witness ==
    /\ Invoked("login")
    /\ s_obs.probe = "TimeoutError"
    /\ s_pc = "returned"
    /\ s_outcome.result.success
    /\ ~s_outcome.result.cached
    /\ Made("click submit")
    /\ Len(s_log) = 1

\* C26: browser_context.storage_state is called only by a login invocation
\* that submitted the credentials and saw the post-login marker, as its
\* last call; never on the cached path, never by an invocation that failed,
\* at most once in a run; and when the call fails the login result still
\* has success = true.
C26_SessionStateWrittenOnce ==
    /\ s_saves <= 1
    /\ Made("storage_state") =>
          /\ Invoked("login")
          /\ s_obs.marker = "visible"
          /\ s_obs.probe # "marker"
          /\ Made("click submit")
          /\ Calls(s_outcome.trace, "storage_state")
                = {Len(s_outcome.trace)}
          /\ s_outcome.kind = "return"
          /\ s_outcome.result.success
          /\ ~s_outcome.result.cached
    /\ s_saves = 1 =>
          /\ Made("storage_state")
          /\ s_pc \in {"returned", "appended"}
    /\ (s_obs.probe = "marker" \/ s_outcome.kind = "raise"
            \/ ~s_outcome.result.success) => s_saves = 0
    /\ s_obs.save \in Failures =>
          /\ Made("storage_state")
          /\ s_outcome.result.success
          /\ s_pc = "appended" => s_steps[Len(s_steps)].success

\* the login succeeded on its second attempt and writing the session state
\* failed: the report holds a successful login step
C26_Witness ==
    /\ Invoked("login")
    /\ s_obs.save = "Error"
    /\ s_saves = 1
    /\ Len(s_log) = 2
    /\ s_pc = "appended"
    /\ s_steps[Len(s_steps)].success

\* C27: in the navigate-to-contract step, when the marker is absent (and
\* the page could be read): on the login URL the failure is Permanent;
\* otherwise with 'error' or 'not found' in the content it is Permanent;
\* otherwise it is Temporary.  Permanent: a failed step result and no
\* further attempt; Temporary: retried until the third attempt.
C27_ContractMarkerAbsent ==
    (/\ Invoked("navigate_to_contract")
     /\ s_obs.visible = "hidden"
     /\ s_obs.content \in Contents) =>
        IF {"/login", "login-page"} \cap Occurs(s_obs.url) # {}
        THEN PermanentOutcome
        ELSE IF {"error", "not found"} \cap Occurs(s_obs.content) # {}
        THEN PermanentOutcome
        ELSE RetriedUpToThree

\* the contract page stayed without its marker and without error text on
\* three attempts
C27_Witness ==
    /\ Invoked("navigate_to_contract")
    /\ s_obs.visible = "hidden"
    /\ s_obs.url = ContractUrl
    /\ s_obs.content = "Loading"
    /\ s_pc = "raised"
    /\ Len(s_log) = 3

\* C28: in the navigate-to-copy-trading step, when the safe click fails
\* (and the page could be read): on the login URL the failure is Permanent;
\* otherwise it is Temporary when the button exists in the page and
\* Permanent when it does not.  Permanent: a failed step result and no
\* further attempt; Temporary: retried until the third attempt.
C28_CopyTradingClickFailed ==
    (/\ Invoked("navigate_to_copy_trading")
     /\ s_obs.clicked = "failed"
     /\ s_obs.content \in Contents
     /\ s_obs.count \notin Failures) =>
        IF {"/login", "login-page"} \cap Occurs(s_obs.url) # {}
        THEN PermanentOutcome
        ELSE IF s_obs.count = "present" THEN RetriedUpToThree
        ELSE s_obs.count = "absent" /\ PermanentOutcome

\* the button was in the page and could not be clicked, then it was gone
C28_Witness ==
    /\ Invoked("navigate_to_copy_trading")
    /\ s_obs.clicked = "failed"
    /\ s_obs.count = "absent"
    /\ Len(s_log) = 2
    /\ s_log[1].type = "TemporaryError"
    /\ s_pc = "appended"
    /\ ~s_steps[Len(s_steps)].success

\* C29: an invocation of the enter-order-number step waits for the order
\* input at most twice, with a dismissal of obstructions between the two
\* waits; when the input is still not visible, the failure is Permanent on
\* the login URL and Temporary otherwise (input present or absent); the
\* order number is filled only after a wait saw the input visible.
C29_OrderInputWaits ==
    Invoked("enter_order_number") =>
        LET waits == Calls(s_outcome.trace, "wait order input") IN
        /\ Cardinality(waits) \in 1..2
        /\ Cardinality(waits) = 2 <=> s_obs.visible = "hidden"
        /\ \A i \in waits, j \in waits :
              i < j => \E k \in Calls(s_outcome.trace, "popups") :
                            i < k /\ k < j
        /\ (s_obs.visible = "hidden" /\ s_obs.visible2 = "hidden"
                /\ s_obs.count \notin Failures) =>
              /\ s_outcome.kind = "raise"
              /\ s_outcome.type =
                    IF {"/login", "login-page"} \cap Occurs(s_obs.url) # {}
                    THEN "PermanentError" ELSE "TemporaryError"
        /\ Made("fill order number") =>
              /\ "visible" \in {s_obs.visible, s_obs.visible2}
              /\ \A i \in waits :
                    \A k \in Calls(s_outcome.trace, "fill order number") :
                        i < k

\* the order input was hidden at the first wait and visible at the second:
\* the order number was filled
C29_Witness ==
    /\ Invoked("enter_order_number")
    /\ s_obs.visible = "hidden"
    /\ s_obs.visible2 = "visible"
    /\ s_pc = "appended"
    /\ s_steps[Len(s_steps)].order_number = StepOrderNumber
    /\ Cardinality(Calls(s_outcome.trace, "wait order input")) = 2

----------------------------------------------------------------------------
(* The helpers of WebErrorHandler (SpecHelpers) *)

\* the positions in h_calls of the calls named call
HelperCalls(call) == {i \in 1..Len(h_calls) : h_calls[i].call = call}

\* C30: handle_common_popups, wait_for_element_safe and click_element_safe
\* never raise, whatever the page answers (a timeout or another error, in
\* the dismissal too): once returned, the result is True or False.  The two
\* safe helpers invoke handle_common_popups exactly once, before the wait,
\* and return True only if the wait (and for click_element_safe the click)
\* succeeded.
C30_HelpersNeverRaise ==
    /\ h_result # "raised"
    /\ h_pc = "returned" => h_result \in {"True", "False"}
    /\ h_op \in {"wait_for_element_safe", "click_element_safe"} =>
          /\ h_pc # "entry" => h_dismissals = 1
          /\ \A w \in HelperCalls("wait_for") :
                /\ h_dismissals = 1
                /\ \E v \in HelperCalls("is_visible") : v < w
                /\ \A c \in HelperCalls("cookie click") : c < w
          /\ Cardinality(HelperCalls("wait_for")) <= 1
          /\ h_result = "True" =>
                /\ \E w \in HelperCalls("wait_for") : h_calls[w].answer = "ok"
                /\ h_op = "click_element_safe" =>
                      \E c \in HelperCalls("click") :
                          /\ h_calls[c].answer = "ok"
                          /\ \A w \in HelperCalls("wait_for") : w < c
    /\ h_op = "handle_common_popups" =>
          /\ h_dismissals <= 1
          /\ HelperCalls("wait_for") = {}

\* click_element_safe: the dismissal failed with an error, the wait
\* succeeded and the click timed out: the helper returned False
C30_Witness ==
    /\ h_op = "click_element_safe"
    /\ h_pc = "returned"
    /\ h_result = "False"
    /\ Len(h_calls) = 3
    /\ h_calls[1] = PageCall("is_visible", 1000, "Error")
    /\ h_calls[2].answer = "ok"
    /\ h_calls[3] = PageCall("click", default_timeout, "TimeoutError")

----------------------------------------------------------------------------
(* Reports of the entry operations (SpecWorkflow) *)

\* C32 as stated: every report returned by execute_copy_trade or
\* execute_login carries an end time and a duration, and a report-level
\* error when success = false, also when a step returned a failed result.
C32_ReturnedReportFinalized ==
    wf_pc = "returned" =>
        /\ report.finalized
        /\ ~report.success => report.error # "none"

\* C39 as stated: every entry of the steps of a report, dry or live, names
\* one of the five steps.
C39_StepNamesAreTheFive ==
    \A i \in 1..Len(report.steps) :
        report.steps[i].step \in
            {"login", "navigate_to_contract", "navigate_to_copy_trading",
             "enter_order_number", "execute_follow_up"}

FiveSteps == {"login", "navigate_to_contract", "navigate_to_copy_trading",
              "enter_order_number", "execute_follow_up"}

\* C39, amended: every entry of a report's steps names one of the five
\* steps, except that the dry run of execute_copy_trade called with
\* skip_history_verification = false ends its list with a sixth simulated
\* entry named verify_history.
C39_StepNamesFiveOrHistory ==
    \A i \in 1..Len(report.steps) :
        \/ report.steps[i].step \in FiveSteps
        \/ /\ report.steps[i].step = "verify_history"
           /\ report.steps[i].simulated
           /\ wf_op = "execute_copy_trade"
           /\ wf_dry_run
           /\ ~wf_skip_history
           /\ i = Len(StepOrder) + 1
           /\ i = Len(report.steps)

C39_Witness ==
    /\ wf_pc = "returned"
    /\ wf_dry_run
    /\ Len(report.steps) = Len(StepOrder) + 1
    /\ report.steps[Len(report.steps)].step = "verify_history"

----------------------------------------------------------------------------
(* Order of the pattern tests (SpecClassify) *)

MatchesBothLists(text) ==
    /\ \E i \in 1..Len(PERMANENT_ERROR_PATTERNS) :
            PERMANENT_ERROR_PATTERNS[i] \in Occurs(text)
    /\ \E i \in 1..Len(TEMPORARY_ERROR_PATTERNS) :
            TEMPORARY_ERROR_PATTERNS[i] \in Occurs(text)

----------------------------------------------------------------------------
(* Sleeps of the retry wrapper (SpecRetry) *)

RECURSIVE Power(_, _)
Power(b, n) == IF n = 0 THEN 1 ELSE b * Power(b, n - 1)

\* C38: the wrapper sleeps only between a failed attempt and the next one:
\* the sleep before attempt k (k >= 2) is base_delay * factor^(k-2) plus a
\* jitter of at most 0.1 s and follows an attempt that raised; there is no
\* sleep before the first attempt, and none after the attempt that ended
\* the wrapper (a return, a Permanent failure or the last failed attempt).
C38_SleepsOnlyBetweenAttempts ==
    /\ \A k \in 2..(Len(r_sleeps) + 1) :
          /\ r_sleeps[k - 1].delay = BaseDelay * Power(Factor, k - 2)
          /\ r_sleeps[k - 1].jitter >= 0
          /\ r_sleeps[k - 1].jitter <= JitterLimitMs
          /\ r_log[k - 1].kind = "exception"
          /\ r_log[k - 1].exc.type # "PermanentError"
          /\ should_retry_exception(r_log[k - 1].exc)
          /\ k <= r_max_attempts
    /\ r_pc = "call" => Len(r_sleeps) = Len(r_log)
    /\ r_pc = "sleep" => Len(r_sleeps) = Len(r_log) - 1
    /\ r_pc \in {"returned", "raised"} => Len(r_sleeps) = Len(r_log) - 1
    /\ Len(r_log) = 0 => Len(r_sleeps) = 0

\* three failed attempts: sleeps of 1 s and 2 s, none after the last one
C38_Witness ==
    /\ r_pc = "raised"
    /\ Len(r_log) = 3
    /\ Len(r_sleeps) = 2
    /\ r_sleeps[1].delay = 1
    /\ r_sleeps[2].delay = 2
    /\ r_sleeps[2].jitter > 0

----------------------------------------------------------------------------
(* Repeated clicks of the follow control (SpecFollowUp) *)

\* C35: each invocation of _step_execute_follow_up is one click attempt on
\* the follow control; an attempt after the first one follows an attempt
\* that ended in a TemporaryError, never one that returned a step result
\* or raised a PermanentError, and there are at most 3 attempts.
C35_ClickAgainOnlyAfterTemporary ==
    /\ Len(f_log) <= 3
    /\ \A k \in 2..Len(f_log) :
          /\ f_log[k - 1].kind = "raise"
          /\ f_log[k - 1].type = "TemporaryError"
    /\ f_pc \in {"call", "sleep"} =>
          \A k \in 1..Len(f_log) :
              f_log[k].kind = "raise" /\ f_log[k].type = "TemporaryError"

C35_Witness ==
    /\ f_pc = "returned"
    /\ Len(f_log) = 3
    /\ f_log[2].type = "TemporaryError"
    /\ f_log[3].kind = "return"
    /\ f_obs.click

----------------------------------------------------------------------------
(* Order of admission to the worker slots (SpecPool) *)

\* C36: accounts acquire a slot in input order: account j never acquires
\* before an account i < j has; the accounts that wait stand in input order
\* behind every admitted one, and a slot that was released goes to the
\* first of them: the next admission after a release with waiters is the
\* head of the queue.
C36_InputOrder ==
    /\ \A a, b \in 1..Len(p_admitted) : a < b => p_admitted[a] < p_admitted[b]
    /\ \A a, b \in 1..Len(p_waiters) : a < b => p_waiters[a] < p_waiters[b]
    /\ \A a \in 1..Len(p_admitted) : \A b \in 1..Len(p_waiters) :
            p_admitted[a] < p_waiters[b]
    /\ \A i \in DOMAIN p_pc :
            p_pc[i] = "created" =>
                /\ \A a \in 1..Len(p_admitted) : p_admitted[a] < i
                /\ \A b \in 1..Len(p_waiters) : p_waiters[b] < i

C36_AdmittedOnRelease ==
    (p_waiters # <<>> /\ p_admitted' # p_admitted)
        => /\ p_value > 0
           /\ p_admitted' = Append(p_admitted, Head(p_waiters))
           /\ p_waiters' = Tail(p_waiters)

C36_AdmissionInInputOrder ==
    [](C36_InputOrder) /\ [][C36_AdmittedOnRelease]_vars

\* a worker that waited was admitted after another one released its slot
C36_Witness ==
    /\ Len(p_admitted) > Limit(p_max_concurrency)
    /\ p_waiters # <<>>
    /\ \E i \in DOMAIN p_pc : p_pc[i] = "done"

----------------------------------------------------------------------------
(* Entry points without accounts (SpecEntry) *)

\* C31: with no account in hand no browser is launched and no context is
\* created: the CLI commands and the background tasks return right after
\* loading an empty account list, and orchestrate_accounts called with an
\* empty list returns an empty list.
C31_NoAccountsNoBrowser ==
    /\ (e_accounts = 0 /\ e_pc \notin {"confirm", "load"}) =>
          /\ e_browsers = 0
          /\ e_contexts = 0
          /\ e_pc \notin {"launch", "close", "failed"}
    /\ (e_accounts = 0 /\ e_pc \notin {"confirm", "load", "aborted"}
            /\ e_entry # "orchestrate_accounts") =>
          /\ e_pc = "returned"
          /\ ~e_results.returned
    /\ (e_accounts = 0 /\ e_pc = "returned"
            /\ e_entry = "orchestrate_accounts") =>
          /\ e_results.returned
          /\ e_results.value = <<>>

C31_Witness ==
    /\ e_entry = "telegram_task"
    /\ e_file_accounts = 0
    /\ ~e_env
    /\ e_pc = "returned"
    /\ e_browsers = 0

----------------------------------------------------------------------------
(* run_copy_trade_for_account (SpecAccount) *)

\* C33 as stated: run_copy_trade_for_account never raises: an exception
\* while setting up or running the workflow, a failure to create the page
\* included, becomes a failure report with the account's name, success =
\* false, the error and no steps, and a page that was created is closed
\* before the function returns.
C33_NeverRaisesIntoOrchestrator ==
    /\ a_pc # "raised"
    /\ a_pc = "returned" =>
          /\ a_result.kind = "return"
          /\ a_page # "open"

\* C40 as stated: the report returned for an account carries that account's
\* account_name, in workflow reports and in the crash report alike.
C40_ReportCarriesAccountName ==
    a_pc = "returned" =>
        a_result.report.account_name = a_account.account_name

----------------------------------------------------------------------------
(* The lock file of the Telegram bot (SpecBot) *)

Running == {i \in Bots : b_pc[i] = "running"}

\* C34 as stated: at most one run_bot instance is past the lock-file check
\* and running, and the lock file exists for as long as an instance runs.
C34_AtMostOneInstance ==
    /\ Cardinality(Running) <= 1
    /\ Running # {} => b_lock

====
